---- MODULE Spec2Model ----
(***************************************************************************)
(* A model of fouskoti's chart resolution / caching engine and of the      *)
(* HelmRelease expansion pipeline (pkg/repository).                        *)
(*                                                                         *)
(* Strings are TLA+ strings; Go's byte-wise string comparison and the      *)
(* strings/path helpers the code calls are computed character by           *)
(* character.  The file system is a set of paths, the network is the       *)
(* fixed catalogue of remote repositories below, and every network         *)
(* operation is recorded in a log.                                         *)
(***************************************************************************)
EXTENDS Integers, Sequences, FiniteSets, TLC

VARIABLES
    pc,             \* position of the caller: "idle", "filter", "return", "done"
    runs,           \* number of ExpandHelmReleases calls the caller makes
    invocation,     \* number of ExpandHelmReleases calls started so far
    input,          \* documents read from the input stream
    maxExpansions,  \* ExpandHelmReleases argument
    chartCacheDir,  \* ExpandHelmReleases argument ("" = none)
    enableChartInMemoryCache, \* ExpandHelmReleases argument
    netDown,        \* repository URLs that cannot be reached
    credentials,    \* ExpandHelmReleases argument: locator -> credential bag
    gitRepoSubst,   \* ExpandHelmReleases argument: Git repository substitution
    nodes,          \* Filter: the accumulated node set
    newNodes,       \* Filter: the nodes produced by the last round
    round,          \* Filter: rounds run so far in this invocation
    chartCache,     \* in-memory chart cache: key -> chart
    disk,           \* directories and files present in the file system
    err,            \* error of the current invocation ("" = none)
    output,         \* documents written to the output stream
    netLog,         \* every network operation performed, in order
    produced,       \* history: the result of each round of this invocation
    bound,          \* history: release/repository pairs of each round
    peer            \* a second call that runs at the same time (pc "off" = none)

vars == <<pc, runs, invocation, input, maxExpansions, chartCacheDir,
          enableChartInMemoryCache, netDown, credentials, gitRepoSubst, nodes, newNodes, round,
          chartCache, disk, err, output, netLog, produced, bound, peer>>

-----------------------------------------------------------------------------
(* Strings *)

\* The characters the model's strings are made of, in ASCII order.
Alphabet ==
    "#%*-./0123456789:=>@ABCDEFGHIJKLMNOPQRSTUVWXYZabcdefghijklmnopqrstuvwxyz"

OrdOf ==
    [c \in {SubSeq(Alphabet, i, i) : i \in 1..Len(Alphabet)} |->
        CHOOSE i \in 1..Len(Alphabet) : SubSeq(Alphabet, i, i) = c]

Ord(c) == OrdOf[c]

Char(s, i) == SubSeq(s, i, i)

\* Go's a < b on strings: byte-wise lexicographic order.
RECURSIVE StrLessFrom(_, _, _)
StrLessFrom(a, b, i) ==
    IF i > Len(b) THEN FALSE
    ELSE IF i > Len(a) THEN TRUE
    ELSE IF Char(a, i) = Char(b, i) THEN StrLessFrom(a, b, i + 1)
    ELSE Ord(Char(a, i)) < Ord(Char(b, i))

StrLess(a, b) == a # b /\ StrLessFrom(a, b, 1)

HasPrefix(s, p) == Len(p) <= Len(s) /\ SubSeq(s, 1, Len(p)) = p

HasSuffix(s, p) ==
    Len(p) <= Len(s) /\ SubSeq(s, Len(s) - Len(p) + 1, Len(s)) = p

TrimPrefix(s, p) == IF HasPrefix(s, p) THEN SubSeq(s, Len(p) + 1, Len(s)) ELSE s

TrimSuffix(s, p) == IF HasSuffix(s, p) THEN SubSeq(s, 1, Len(s) - Len(p)) ELSE s

\* strings.TrimRight(s, "/")
RECURSIVE TrimRightSlash(_)
TrimRightSlash(s) ==
    IF HasSuffix(s, "/") THEN TrimRightSlash(SubSeq(s, 1, Len(s) - 1)) ELSE s

\* strings.ReplaceAll(s, old, new) for a one-character old
RECURSIVE ReplaceAll(_, _, _)
ReplaceAll(s, old, new) ==
    IF s = "" THEN ""
    ELSE (IF Char(s, 1) = old THEN new ELSE Char(s, 1))
         \o ReplaceAll(SubSeq(s, 2, Len(s)), old, new)

\* strings.Index(s, sub), 1-based; 0 when sub does not occur
RECURSIVE IndexFrom(_, _, _)
IndexFrom(s, sub, i) ==
    IF i + Len(sub) - 1 > Len(s) THEN 0
    ELSE IF SubSeq(s, i, i + Len(sub) - 1) = sub THEN i
    ELSE IndexFrom(s, sub, i + 1)

Index(s, sub) == IndexFrom(s, sub, 1)

Contains(s, sub) == Index(s, sub) > 0

\* strings.Split(s, "/")
RECURSIVE SplitSlash(_)
SplitSlash(s) ==
    LET i == Index(s, "/")
    IN  IF i = 0 THEN <<s>>
        ELSE <<SubSeq(s, 1, i - 1)>> \o SplitSlash(SubSeq(s, i + 1, Len(s)))

RECURSIVE JoinSlash(_)
JoinSlash(parts) ==
    IF parts = <<>> THEN ""
    ELSE IF Len(parts) = 1 THEN parts[1]
    ELSE parts[1] \o "/" \o JoinSlash(Tail(parts))

\* path.Clean on the elements of a path: "" and "." are dropped, ".."
\* removes the element before it (and is kept at the start of a relative
\* path, dropped at the root).
RECURSIVE CleanParts(_, _, _)
CleanParts(parts, acc, rooted) ==
    IF parts = <<>> THEN acc
    ELSE LET p == Head(parts)
         IN  IF p = "" \/ p = "." THEN CleanParts(Tail(parts), acc, rooted)
             ELSE IF p = ".."
             THEN IF acc # <<>> /\ acc[Len(acc)] # ".."
                  THEN CleanParts(Tail(parts), SubSeq(acc, 1, Len(acc) - 1), rooted)
                  ELSE IF rooted THEN CleanParts(Tail(parts), acc, rooted)
                  ELSE CleanParts(Tail(parts), Append(acc, p), rooted)
             ELSE CleanParts(Tail(parts), Append(acc, p), rooted)

\* path.Clean's result from the cleaned elements
cleanJoined(rooted, body) ==
    IF rooted THEN "/" \o body
    ELSE IF body = "" THEN "." ELSE body

pathClean(p) ==
    IF p = "" THEN "."
    ELSE cleanJoined(HasPrefix(p, "/"),
                     JoinSlash(CleanParts(SplitSlash(p), <<>>, HasPrefix(p, "/"))))

pathIsAbs(p) == HasPrefix(p, "/")

\* path.Join: the non-empty elements joined by "/", then cleaned; "" when
\* every element is empty.
RECURSIVE NonEmpty(_)
NonEmpty(parts) ==
    IF parts = <<>> THEN <<>>
    ELSE IF Head(parts) = "" THEN NonEmpty(Tail(parts))
    ELSE <<Head(parts)>> \o NonEmpty(Tail(parts))

pathJoin(parts) ==
    IF NonEmpty(parts) = <<>> THEN "" ELSE pathClean(JoinSlash(NonEmpty(parts)))

joinPath(a, b) == IF pathIsAbs(b) THEN b ELSE pathJoin(<<a, b>>)

-----------------------------------------------------------------------------
(* URLs: net/url's Parse and String on the URL shapes the model uses:      *)
(* [scheme "://" [user "@"] host] path                                     *)

\* [user "@"] host
parseAuthority(sch, auth, pth) ==
    [Scheme |-> sch,
     User   |-> IF Index(auth, "@") = 0 THEN ""
                ELSE SubSeq(auth, 1, Index(auth, "@") - 1),
     Host   |-> IF Index(auth, "@") = 0 THEN auth
                ELSE SubSeq(auth, Index(auth, "@") + 1, Len(auth)),
     Path   |-> pth]

\* what follows "://": the authority up to the first "/", then the path
parseHierarchical(sch, rest) ==
    IF Index(rest, "/") = 0 THEN parseAuthority(sch, rest, "")
    ELSE parseAuthority(sch, SubSeq(rest, 1, Index(rest, "/") - 1),
                        SubSeq(rest, Index(rest, "/"), Len(rest)))

parseURL(s) ==
    IF Index(s, "://") = 0
    THEN [Scheme |-> "", User |-> "", Host |-> "", Path |-> s]
    ELSE parseHierarchical(SubSeq(s, 1, Index(s, "://") - 1),
                           SubSeq(s, Index(s, "://") + 3, Len(s)))

urlString(u) ==
    (IF u.Scheme = "" THEN "" ELSE u.Scheme \o ":")
    \o (IF u.Scheme # "" \/ u.Host # "" \/ u.User # ""
        THEN "//" \o (IF u.User = "" THEN "" ELSE u.User \o "@") \o u.Host
        ELSE "")
    \o u.Path

OCIScheme == "oci"

\* The parsed URL with its path's trailing slashes trimmed, and one slash
\* appended unless the scheme is oci
normalizeParsed(u) ==
    IF u.Scheme = OCIScheme
    THEN urlString([u EXCEPT !.Path = TrimRightSlash(u.Path)])
    ELSE urlString([u EXCEPT !.Path = TrimRightSlash(u.Path) \o "/"])

normalizeURL(repositoryURL) ==
    IF repositoryURL = "" THEN "" ELSE normalizeParsed(parseURL(repositoryURL))

-----------------------------------------------------------------------------
(* Resource nodes: one parsed YAML document.  src is the head comment      *)
(* ("" for an input document), spec the fields of the document's kind,     *)
(* keys the keys under metadata in the order of the document (a document   *)
(* that declares a namespace has it before the name).                      *)

Node(apiVersion, kind, namespace, name, spec) ==
    [apiVersion |-> apiVersion, kind |-> kind, namespace |-> namespace,
     name |-> name, spec |-> spec, src |-> "",
     keys |-> IF namespace = "" THEN <<"name">> ELSE <<"namespace", "name">>]

GetKind(n) == n.kind
GetApiVersion(n) == n.apiVersion
GetNamespace(n) == n.namespace
GetName(n) == n.name

\* The API group of a node: its apiVersion up to the "/" ("" for the core
\* group).
GetGroup(n) ==
    LET i == Index(n.apiVersion, "/")
    IN  IF i = 0 THEN "" ELSE SubSeq(n.apiVersion, 1, i - 1)

HelmReleaseGroup == "helm.toolkit.fluxcd.io"
HelmReleaseApi == "helm.toolkit.fluxcd.io/v2"
SourceApi == "source.toolkit.fluxcd.io/v1"
SourceApiBeta == "source.toolkit.fluxcd.io/v1beta2"

NoRef == [Branch |-> "", Tag |-> "", SemVer |-> "", Name |-> "", Commit |-> ""]

SourceRef(kind, name, namespace, apiVersion) ==
    [kind |-> kind, name |-> name, namespace |-> namespace,
     apiVersion |-> apiVersion]

HelmRelease(namespace, name, chart, version, sourceRef, values) ==
    Node(HelmReleaseApi, "HelmRelease", namespace, name,
         [chart |-> chart, version |-> version, sourceRef |-> sourceRef,
          targetNamespace |-> "", releaseName |-> "", values |-> values])

GitRepository(apiVersion, namespace, name, url, ref) ==
    Node(apiVersion, "GitRepository", namespace, name, [url |-> url, ref |-> ref])

HelmRepository(namespace, name, url, type) ==
    Node(SourceApi, "HelmRepository", namespace, name, [url |-> url, type |-> type])

OCIRepository(namespace, name, url) ==
    Node(SourceApiBeta, "OCIRepository", namespace, name, [url |-> url, type |-> ""])

\* A repository of an OCI registry with spec.insecure and spec.provider
RegistryRepository(kind, namespace, name, url, insecure, provider) ==
    Node(SourceApi, kind, namespace, name,
         [url |-> url, type |-> "oci", insecure |-> insecure,
          provider |-> provider])

\* repo.Spec.Insecure and repo.Spec.Provider of the decoded repository: the
\* zero value for a field the document does not have
SpecInsecure(repo) == "insecure" \in DOMAIN repo.spec /\ repo.spec.insecure

SpecProvider(repo) ==
    IF "provider" \in DOMAIN repo.spec THEN repo.spec.provider ELSE ""

-----------------------------------------------------------------------------
(* The remote world: what the network serves.  Charts are records          *)
(* [name, version, templates, deps]; deps are the dependency declarations  *)
(* of Chart.yaml.                                                          *)

GitURL == "ssh://git@h/r.git"
AltGitURL == "ssh://git@h/s.git"
GitPortURL == "ssh://git@h:22/r.git"
\* The first Git repository as served over HTTPS
GitHttpsURL == "https://h/r.git"
HelmURL == "http://h/x"
OciURL == "oci://h/o"
\* A registry with a host name of AWS ECR
EcrHost == "1.dkr.ecr.r1.amazonaws.com"
EcrURL == "oci://1.dkr.ecr.r1.amazonaws.com/o"

\* A dependency of Chart.yaml; condition is the values path that enables
\* it ("" for none)
DepIf(name, version, repository, condition) ==
    [name |-> name, version |-> version, repository |-> repository,
     condition |-> condition]

Dep(name, version, repository) == DepIf(name, version, repository, "")

ChartDef(name, version, templates, deps) ==
    [name |-> name, version |-> version, templates |-> templates, deps |-> deps]

\* A working copy on the local disk, its chart rendering differently
WorkingCopy == "/work"

\* Charts of the Git repository with one dependency each, the URL of the
\* dependency's repository having every scheme and user name
SchemeCharts ==
    {[dir |-> "u/oci",    dep |-> "oleaf", url |-> OciURL],
     [dir |-> "u/ecr",    dep |-> "oleaf", url |-> EcrURL],
     [dir |-> "u/ssh",    dep |-> "leaf",  url |-> AltGitURL],
     [dir |-> "u/sshn",   dep |-> "leaf",  url |-> "ssh://h/s.git"],
     [dir |-> "u/http",   dep |-> "hleaf", url |-> HelmURL],
     [dir |-> "u/https",  dep |-> "hleaf", url |-> "https://h/x"],
     [dir |-> "u/httpg",  dep |-> "leaf",  url |-> "http://git@h/s.git"],
     [dir |-> "u/httpsg", dep |-> "leaf",  url |-> "https://git@h/s.git"],
     [dir |-> "u/httpsp", dep |-> "leaf",  url |-> "https://git:pw@h/s.git"],
     [dir |-> "u/httpsu", dep |-> "hleaf", url |-> "https://bob@h/x"],
     [dir |-> "u/httpsx", dep |-> "hleaf", url |-> "https://gitx@h/x"],
     [dir |-> "u/ftp",    dep |-> "leaf",  url |-> "ftp://h/x"],
     [dir |-> "u/git",    dep |-> "leaf",  url |-> "git://h/s.git"],
     [dir |-> "u/sftp",   dep |-> "leaf",  url |-> "sftp://git@h/s.git"]}

SchemeChart(dir) == CHOOSE c \in SchemeCharts : c.dir = dir

\* The chart directories of a Git repository (the same at every reference).
GitTree(url) ==
    IF url \in {GitURL, GitHttpsURL, GitPortURL} THEN
        [p \in {"c/leaf", "c/fixed", "c/nest", "c/loop", "c/void", "c/par",
                "c/dot", "c/dot/sub", "c/opar", "c/bad", "c/cond",
                "c/cyca", "c/cycb"}
               \cup {c.dir : c \in SchemeCharts} |->
            CASE p \in {c.dir : c \in SchemeCharts} ->
                    ChartDef(TrimPrefix(p, "u/"), "0.1.0", <<"fixed">>,
                             <<Dep(SchemeChart(p).dep, ">=0.1.0", SchemeChart(p).url)>>)
              [] p = "c/leaf"  -> ChartDef("leaf", "0.1.0", <<"cm">>, <<>>)
              [] p = "c/fixed" -> ChartDef("fixed", "0.1.0", <<"fixed">>, <<>>)
              [] p = "c/nest"  -> ChartDef("nest", "0.1.0", <<"rel", "repo">>, <<>>)
              [] p = "c/loop"  -> ChartDef("loop", "0.1.0", <<"loop">>, <<>>)
              [] p = "c/void"  -> ChartDef("void", "0.1.0", <<"blank", "NOTES.txt">>, <<>>)
              [] p = "c/dot"   -> ChartDef("dot", "0.1.0", <<"fixed">>,
                                     <<Dep("sub", "0.1.0", "file://./sub")>>)
              [] p = "c/dot/sub" -> ChartDef("sub", "0.1.0", <<"cm">>, <<>>)
              [] p = "c/opar"  -> ChartDef("opar", "0.1.0", <<"fixed">>,
                                     <<Dep("oleaf", ">=0.1.0", OciURL)>>)
              [] p = "c/bad"   -> ChartDef("bad", "0.1.0", <<"fixed">>,
                                     <<Dep("gone", "1.0.0", "ftp://h/x")>>)
              [] p = "c/cond"  -> ChartDef("cond", "0.1.0", <<"fixed">>,
                                     <<DepIf("leaf", "0.1.0", "file://../leaf",
                                             "leaf.enabled")>>)
              [] p = "c/cyca"  -> ChartDef("cyca", "0.1.0", <<"fixed">>,
                                     <<Dep("cycb", "0.1.0", "file://../cycb")>>)
              [] p = "c/cycb"  -> ChartDef("cycb", "0.1.0", <<"fixed">>,
                                     <<Dep("cyca", "0.1.0", "file://../cyca")>>)
              [] p = "c/par"   -> ChartDef("par", "0.1.0", <<"fixed">>,
                                     <<Dep("leaf", "0.1.0", "file://../leaf"),
                                       Dep("hleaf", ">=0.1.0", HelmURL),
                                       Dep("sub", "0.1.0", "")>>)]
    ELSE IF url = WorkingCopy THEN
        [p \in {"c/leaf"} |-> ChartDef("leaf", "0.1.0", <<"fixed">>, <<>>)]
    ELSE IF url = AltGitURL THEN
        [p \in {"c/leaf"} |->
            ChartDef("leaf", "0.2.0", <<"fixed", "twin", "loop">>, <<>>)]
    ELSE [p \in {} |-> ChartDef("", "", <<>>, <<>>)]

\* index.yaml of a Helm HTTP repository: chart name -> published versions.
HelmIndex(url) ==
    IF url = HelmURL \o "/"
    THEN [c \in {"hleaf", "hrel", "hdep"} |->
             IF c = "hleaf" THEN <<"0.1.0", "0.2.0">> ELSE <<"0.1.0">>]
    ELSE [c \in {} |-> <<>>]

\* The charts of the Helm repository: hrel declares a dependency with a
\* file URL, hdep one in the OCI registry.
HelmChart(url, name, version) ==
    CASE name = "hrel" -> ChartDef(name, version, <<"fixed">>,
                                   <<Dep("leaf", "0.1.0", "file://../leaf")>>)
      [] name = "hdep" -> ChartDef(name, version, <<"fixed">>,
                                   <<Dep("oleaf", ">=0.1.0", OciURL)>>)
      [] OTHER -> ChartDef(name, version, <<"cm">>, <<>>)

\* The tags of an OCI registry path.
OciTags(url, name) ==
    IF url \in {OciURL, EcrURL} /\ name = "oleaf"
    THEN <<"0.1.0", "0.2.0", "latest">>
    ELSE IF url = OciURL /\ name \in {"orel", "odep"}
    THEN <<"0.1.0">>
    ELSE <<>>

\* The charts of the OCI registry: orel declares a dependency with a
\* relative path as its repository, odep one in the Helm repository.
OciChart(url, name, version) ==
    CASE name = "orel" -> ChartDef(name, version, <<"fixed">>,
                                   <<Dep("leaf", "0.1.0", "../leaf")>>)
      [] name = "odep" -> ChartDef(name, version, <<"fixed">>,
                                   <<Dep("hleaf", ">=0.1.0", HelmURL)>>)
      [] OTHER -> ChartDef(name, version, <<"sec">>, <<>>)

-----------------------------------------------------------------------------
(* Versions and constraints.  Versions are "M.m.p" with one-digit parts,   *)
(* so that the semantic order is the byte-wise order of the strings.       *)

Digits == "0123456789"

IsDigit(c) == Contains(Digits, c)

\* version.ParseVersion succeeds
IsVersion(s) ==
    /\ Len(s) = 5
    /\ IsDigit(Char(s, 1)) /\ Char(s, 2) = "."
    /\ IsDigit(Char(s, 3)) /\ Char(s, 4) = "."
    /\ IsDigit(Char(s, 5))

\* semver.NewConstraint succeeds: "*", "M.m.p" and ">=M.m.p"
IsConstraint(c) ==
    c = "*" \/ IsVersion(c) \/ (HasPrefix(c, ">=") /\ IsVersion(TrimPrefix(c, ">=")))

\* Constraint.Check
ConstraintCheck(c, v) ==
    IF c = "*" THEN TRUE
    ELSE IF HasPrefix(c, ">=") THEN ~StrLess(v, TrimPrefix(c, ">="))
    ELSE v = c

RECURSIVE SelectSeq2(_, _, _)
SelectSeq2(s, c, i) ==
    IF i > Len(s) THEN <<>>
    ELSE (IF IsVersion(s[i]) /\ ConstraintCheck(c, s[i]) THEN <<s[i]>> ELSE <<>>)
         \o SelectSeq2(s, c, i + 1)

RECURSIVE MaxVersion(_)
MaxVersion(s) ==
    IF Len(s) = 1 THEN s[1]
    ELSE LET m == MaxVersion(Tail(s))
         IN  IF StrLess(m, s[1]) THEN s[1] ELSE m

\* The highest tag that parses as a version and satisfies versionSpec;
\* "" when the constraint does not parse or nothing matches.
getLatestMatchingVersion(tags, versionSpec) ==
    LET versionString == IF versionSpec = "" THEN "*" ELSE versionSpec
        matching == SelectSeq2(tags, versionString, 1)
    IN  IF ~IsConstraint(versionString) THEN ""
        ELSE IF matching = <<>> THEN ""
        ELSE MaxVersion(matching)

-----------------------------------------------------------------------------
(* Loader plumbing.  cfg is the loaderConfig plus what the log records:    *)
(*   cacheRoot, cacheOn (chartCache # nil), credentials, down (unreachable *)
(*   URLs),                                                                *)
(*   rel (the release being expanded), inv (the invocation), key (the      *)
(*   chart identity being resolved).                                       *)
(* st is the mutable state a load threads through: the file system, the    *)
(* in-memory cache and the network log.                                    *)
(* A load returns [err, chart, st]; err = "" on success.                   *)

NoChart == [name |-> "", version |-> "", templates |-> <<>>, deps |-> <<>>,
            dependencies |-> <<>>]

NoNode == [apiVersion |-> "", kind |-> "", namespace |-> "", name |-> "",
           spec |-> [url |-> "", ref |-> NoRef, type |-> ""], src |-> "",
           keys |-> <<>>]

NoContext == [localRepoPath |-> "", chartName |-> "", loader |-> "",
              repoNode |-> NoNode]

\* helmloader.LoadFiles / LoadDir on the files of a chart
LoadChart(def) ==
    [name |-> def.name, version |-> def.version, templates |-> def.templates,
     deps |-> def.deps, dependencies |-> <<>>]

\* key: the key under which the returned chart is the object the
\* in-memory cache holds ("" when it is held by no cache entry)
Ok(chart, st) == [err |-> "", chart |-> chart, st |-> st, key |-> ""]

Fail(msg, st) == [err |-> msg, chart |-> NoChart, st |-> st, key |-> ""]

Shared(chart, st, key) == [err |-> "", chart |-> chart, st |-> st, key |-> key]

\* plainHTTP: the operation is made by a registry client created as
\* insecure (FALSE outside the OCI loader)
NetOp(op, url, path, cfg) ==
    [op |-> op, url |-> url, path |-> path, key |-> cfg.key, rel |-> cfg.rel,
     inv |-> cfg.inv, plainHTTP |-> cfg.plainHTTP]

Logged(st, entry) == [st EXCEPT !.log = Append(st.log, entry)]

Written(st, path, content) ==
    [st EXCEPT !.disk = [p \in DOMAIN st.disk \cup {path} |->
                            IF p = path THEN content ELSE st.disk[p]]]

\* A variant of Cached that stores nothing.
CachedNever(st, cfg, key, chart) == st

Cached(st, cfg, key, chart) ==
    IF cfg.cacheOn
    THEN [st EXCEPT !.cache = [k \in DOMAIN st.cache \cup {key} |->
                                  IF k = key THEN chart ELSE st.cache[k]]]
    ELSE st

\* os.RemoveAll(dir)
RemoveAll(d, dir) ==
    [p \in {q \in DOMAIN d : ~(q = dir \/ HasPrefix(q, dir \o "/"))} |-> d[p]]

IsDir(d, path) == path \in DOMAIN d /\ d[path].kind # "file"

\* A variant of getCachePathForRepo that has no ephemeral subtree.
getCachePathIgnoringEphemeral(cacheRoot, repoURL, ephemeral) ==
    pathJoin(<<cacheRoot, ReplaceAll(TrimSuffix(repoURL, "/"), "/", "#")>>)

getCachePathForRepo(cacheRoot, repoURL, ephemeral) ==
    LET urlPath == ReplaceAll(TrimSuffix(repoURL, "/"), "/", "#")
    IN  pathJoin(<<cacheRoot>> \o (IF ephemeral THEN <<"ephemeral">> ELSE <<>>)
                 \o <<urlPath>>)

-----------------------------------------------------------------------------
(* Loader selection *)

\* The value of a field is a YAML string.  A value of another type is
\* written with its tag ("!!int 1", "!!bool true"); an absent field is "".
IsString(value) == ~HasPrefix(value, "!!")

\* A variant of getRepoFactory that does not look at the type of spec.type.
getRepoFactoryUntyped(repoNode) ==
    CASE GetKind(repoNode) = "HelmRepository" ->
            IF repoNode.spec.type # "oci" THEN "helm" ELSE "oci"
      [] GetKind(repoNode) = "GitRepository" -> "git"
      [] GetKind(repoNode) = "OCIRepository" -> "oci"
      [] OTHER -> ""

\* getRepoFactory: the loader for a repository node, "" when it returns an
\* error (an unknown kind, a spec.type that is not a string)
getRepoFactory(repoNode) ==
    CASE GetKind(repoNode) = "HelmRepository" ->
            IF ~IsString(repoNode.spec.type) THEN ""
            ELSE IF repoNode.spec.type # "oci" THEN "helm" ELSE "oci"
      [] GetKind(repoNode) = "GitRepository" -> "git"
      [] GetKind(repoNode) = "OCIRepository" -> "oci"
      [] OTHER -> ""

\* The error getRepoFactory returns
repoFactoryError(repoNode) ==
    IF GetKind(repoNode) = "HelmRepository"
    THEN "invalid value for spec.type for " \o GetKind(repoNode) \o " "
         \o GetNamespace(repoNode) \o "/" \o GetName(repoNode) \o ": "
         \o TrimPrefix(TrimPrefix(repoNode.spec.type, "!!int "), "!!bool ")
    ELSE "unknown kind " \o GetKind(repoNode) \o " for repository "
         \o GetNamespace(repoNode) \o "/" \o GetName(repoNode)

\* A variant of factoryForScheme that knows the Helm repository loader only.
factoryForSchemeHelmOnly(parsedURL) == "helm"

\* A variant of factoryForScheme that takes any user name for Git's.
factoryForSchemeAnyUser(parsedURL) ==
    CASE parsedURL.Scheme \in {"https", "http"} ->
            IF parsedURL.User # "" THEN "git" ELSE "helm"
      [] parsedURL.Scheme = "ssh" -> "git"
      [] parsedURL.Scheme = "oci" -> "oci"
      [] OTHER -> ""

\* Userinfo.Username: the user information up to the password
Username(userinfo) ==
    IF Index(userinfo, ":") = 0 THEN userinfo
    ELSE SubSeq(userinfo, 1, Index(userinfo, ":") - 1)

\* The loader for a parsed URL
factoryForScheme(parsedURL) ==
    CASE parsedURL.Scheme \in {"https", "http"} ->
            IF Username(parsedURL.User) = "git" THEN "git" ELSE "helm"
      [] parsedURL.Scheme = "ssh" -> "git"
      [] parsedURL.Scheme = "oci" -> "oci"
      [] OTHER -> ""

\* getRepoFactoryByURL: the loader for a bare URL, "" for an unknown scheme
getRepoFactoryByURL(repoURL) == factoryForScheme(parseURL(repoURL))

-----------------------------------------------------------------------------
(* The dependency resolver and the tail shared by the three loaders *)

RECURSIVE loaderLoad(_, _, _, _, _, _, _, _)
RECURSIVE loadDependenciesFrom(_, _, _, _, _)

\* The dereference of a chart that is nil
NilChartPanic == "panic: nil chart"

\* The depth of nested loads at which the stack of the process is
\* exhausted
MaxDepth == 3

\* The end of a recursion that does not return
StackOverflow == "fatal error: stack overflow"

\* The load of a dependency, nested in the load of its parent
nestedLoad(loader, cfg, st, repoNode, repoURL, parentContext, chartName, chartVersion) ==
    IF cfg.depth >= MaxDepth THEN Fail(StackOverflow, st)
    ELSE loaderLoad(loader, [cfg EXCEPT !.depth = @ + 1], st, repoNode,
                    repoURL, parentContext, chartName, chartVersion)

\* The dereference of a parent context that is nil
NilContextPanic == "panic: nil parent context"

\* One dependency has been loaded: it is attached to the parent, or its
\* error ends the loop.
dependencyLoaded(cfg, parentChart, parentContext, i, dependency, repoURL, loaded) ==
    IF loaded.err # ""
    THEN Fail("unable to load chart " \o dependency.name \o "/"
              \o dependency.version \o " from " \o repoURL
              \o " (a dependency of " \o parentChart.name \o "): " \o loaded.err,
              loaded.st)
    ELSE IF loaded.chart = NoChart THEN Fail(NilChartPanic, loaded.st)
    ELSE loadDependenciesFrom(
             cfg, loaded.st,
             [parentChart EXCEPT !.dependencies = Append(@, loaded.chart)],
             parentContext, i + 1)

\* A dependency with a file:// (or scheme-less) URL: loaded by the parent's
\* loader from the parent's checkout.  Without a parent context the call
\* dereferences nil.
loadLocalDependency(cfg, st, parentChart, parentContext, i, dependency, repoURL, parsedURL) ==
    IF parentContext = NoContext
    THEN Fail(NilContextPanic, st)
    ELSE dependencyLoaded(
             cfg, parentChart, parentContext, i, dependency, repoURL,
             nestedLoad(parentContext.loader, cfg, st, parentContext.repoNode,
                        "", parentContext,
                        joinPath(parentContext.chartName, parsedURL.Path),
                        dependency.version))

\* A dependency in another repository: loaded by the loader of its URL.
loadRemoteDependency(cfg, st, parentChart, parentContext, i, dependency, repoURL, factory) ==
    IF factory = ""
    THEN Fail("unable to get loader for chart " \o dependency.name \o "/"
              \o dependency.version \o " in " \o repoURL
              \o " (a dependency of " \o parentChart.name
              \o "): unknown type for repository URL " \o repoURL, st)
    ELSE dependencyLoaded(
             cfg, parentChart, parentContext, i, dependency, repoURL,
             nestedLoad(factory, cfg, st, NoNode, repoURL, NoContext,
                        dependency.name, dependency.version))

\* A variant of relativeFileURL that leaves ".." in the host.
relativeFileURLAsParsed(parsed) == parsed

\* url.Parse of a relative file URL puts ".." in the host
relativeFileURL(parsed) ==
    IF parsed.Host = ".."
    THEN [parsed EXCEPT !.Host = "", !.Path = pathJoin(<<"..", parsed.Path>>)]
    ELSE parsed

loadDependency(cfg, st, parentChart, parentContext, i, dependency, repoURL, parsedURL) ==
    IF parsedURL.Scheme \in {"file", ""}
    THEN loadLocalDependency(cfg, st, parentChart, parentContext, i,
                             dependency, repoURL, parsedURL)
    ELSE loadRemoteDependency(cfg, st, parentChart, parentContext, i,
                              dependency, repoURL, getRepoFactoryByURL(repoURL))

\* The loop of loadChartDependencies from the i-th declared dependency on.
\* A dependency without a repository is bundled with the chart already.
loadDependenciesFrom(cfg, st, parentChart, parentContext, i) ==
    IF i > Len(parentChart.deps) THEN Ok(parentChart, st)
    ELSE IF parentChart.deps[i].repository = ""
    THEN loadDependenciesFrom(cfg, st, parentChart, parentContext, i + 1)
    ELSE loadDependency(
             cfg, st, parentChart, parentContext, i, parentChart.deps[i],
             normalizeURL(parentChart.deps[i].repository),
             relativeFileURL(parseURL(normalizeURL(parentChart.deps[i].repository))))

loadChartDependencies(cfg, st, parentChart, parentContext) ==
    loadDependenciesFrom(cfg, st, parentChart, parentContext, 1)

\* The end of every loader: a dependency error is wrapped, otherwise the
\* chart is stored in the in-memory cache under its key and returned.
finishLoad(cfg, repoURL, chartName, chartVersion, withDeps) ==
    IF withDeps.err # ""
    THEN Fail("unable to load chart dependencies for " \o chartName \o "/"
              \o chartVersion \o " in " \o repoURL \o ": " \o withDeps.err,
              withDeps.st)
    ELSE Shared(withDeps.chart, Cached(withDeps.st, cfg, cfg.key, withDeps.chart),
                IF cfg.cacheOn THEN cfg.key ELSE "")

-----------------------------------------------------------------------------
(* Credentials: a mapping from a repository locator (a URL or a bare host  *)
(* name) to a credential bag; an item that is absent is "".                *)

Bag(username, password, identity, known_hosts) ==
    [username |-> username, password |-> password, identity |-> identity,
     known_hosts |-> known_hosts]

NoBag == Bag("", "", "", "")

\* url.URL.Hostname: the host without its port
Hostname(u) ==
    IF Index(u.Host, ":") = 0 THEN u.Host
    ELSE SubSeq(u.Host, 1, Index(u.Host, ":") - 1)

\* A variant of FindForRepo that prefers the entry of the host.
FindForRepoHostFirst(creds, repoURL) ==
    IF Hostname(repoURL) \in DOMAIN creds
    THEN [found |-> TRUE, creds |-> creds[Hostname(repoURL)]]
    ELSE IF urlString(repoURL) \in DOMAIN creds
    THEN [found |-> TRUE, creds |-> creds[urlString(repoURL)]]
    ELSE [found |-> FALSE, creds |-> NoBag]

\* Credentials.FindForRepo: the entry of the URL, else the entry of its
\* host, else none.  Returns [found, creds].
FindForRepo(creds, repoURL) ==
    IF urlString(repoURL) \in DOMAIN creds
    THEN [found |-> TRUE, creds |-> creds[urlString(repoURL)]]
    ELSE IF Hostname(repoURL) \in DOMAIN creds
    THEN [found |-> TRUE, creds |-> creds[Hostname(repoURL)]]
    ELSE [found |-> FALSE, creds |-> NoBag]

\* A variant of NewAuthOptions that validates nothing.
NewAuthOptionsUnchecked(u, bag) == ""

\* git.NewAuthOptions(url, credentials): "" or the validation error.  The
\* user name defaults to the URL's, then to "git".
NewAuthOptions(u, bag) ==
    CASE u.Scheme = "ssh" ->
            IF u.Host = "" THEN "invalid 'ssh' auth option: 'host' is required"
            ELSE IF bag.identity = ""
            THEN "invalid 'ssh' auth option: 'identity' is required"
            ELSE IF bag.known_hosts = ""
            THEN "invalid 'ssh' auth option: 'known_hosts' is required"
            ELSE ""
      [] u.Scheme \in {"http", "https"} -> ""
      [] u.Scheme = "" -> "no transport type set"
      [] OTHER -> "unknown transport '" \o u.Scheme \o "'"

-----------------------------------------------------------------------------
(* Git loader *)

\* A variant of normalizeGitReference that leaves an empty reference empty.
normalizeKeepsOriginal(original) == original

normalizeGitReference(original) ==
    IF original.Branch # "" \/ original.Tag # "" \/ original.SemVer # ""
       \/ original.Name # "" \/ original.Commit # ""
    THEN original
    ELSE [NoRef EXCEPT !.Branch = "master"]

\* Whether a (normalized) reference is a moving one, whose checkout goes to
\* the ephemeral subtree: anything but a commit, a tag, a semver range or a
\* name under refs/tags.
isEphemeralRef(ref) ==
    ~(ref.Commit # "" \/ ref.Tag # "" \/ ref.SemVer # ""
      \/ HasPrefix(ref.Name, "refs/tags/"))

\* The reference name as a directory name.
escapeRefName(name) == ReplaceAll(name, "/", "%")

gitRefString(ref) ==
    ref.Branch \o "#" \o ref.Tag \o "#" \o ref.SemVer \o "#"
    \o escapeRefName(ref.Name) \o "#" \o ref.Commit

\* GitClientInterface.Clone succeeds
CloneSucceeds(cfg, repoURL) ==
    repoURL \notin cfg.down /\ DOMAIN GitTree(repoURL) # {}

\* The checkout directory of a repository at a reference
gitRepoPath(cacheRoot, repoURL, normalizedGitRef) ==
    pathJoin(<<getCachePathForRepo(cacheRoot, repoURL,
                                   isEphemeralRef(normalizedGitRef)),
               gitRefString(normalizedGitRef)>>)

\* The options of the clone: a shallow clone of the reference
CloneConfig(normalizedGitRef) ==
    [ShallowClone |-> TRUE,
     CheckoutStrategy |-> [Branch |-> normalizedGitRef.Branch,
                           Tag |-> normalizedGitRef.Tag,
                           SemVer |-> normalizedGitRef.SemVer,
                           RefName |-> normalizedGitRef.Name,
                           Commit |-> normalizedGitRef.Commit]]

\* The error of a clone that fails
CloneError == "authentication required"

\* A variant of substituteHTTPS that never rewrites the URL.
substituteNothing(parsedURL, repoCreds) == parsedURL

\* The URL to clone from: an ssh URL whose credentials have a password and
\* no identity becomes an https URL without user.
substituteHTTPS(parsedURL, repoCreds) ==
    IF repoCreds.found /\ parsedURL.Scheme = "ssh"
       /\ repoCreds.creds.password # "" /\ repoCreds.creds.identity = ""
    THEN [parsedURL EXCEPT !.Scheme = "https", !.Host = Hostname(parsedURL),
                           !.User = ""]
    ELSE parsedURL

\* A variant of cloneWith that clones a second time after a failure.
cloneWithRetry(cfg, st, repo, repoPath, repoURL, cloneOpts, authErr) ==
    IF authErr # ""
    THEN [err |-> "unable to initialize Git auth options for Git repository "
                  \o GetNamespace(repo) \o "/" \o GetName(repo) \o ": " \o authErr,
          path |-> "", st |-> st]
    ELSE IF ~CloneSucceeds(cfg, repoURL)
    THEN [err |-> "unable to clone Git repository " \o repoURL \o ": "
                  \o CloneError,
          path |-> "",
          st |-> Logged(Logged(st, NetOp("clone", repoURL, repoPath, cfg)),
                        NetOp("clone", repoURL, repoPath, cfg))]
    ELSE [err |-> "", path |-> repoPath,
          st |-> Written(Logged(st, NetOp("clone", repoURL, repoPath, cfg)),
                         repoPath,
                         [kind |-> "git", url |-> repoURL,
                          strategy |-> cloneOpts.CheckoutStrategy])]

\* The auth options are built (authErr = "") or not: the client clones
\* repoURL into repoPath.
cloneWith(cfg, st, repo, repoPath, repoURL, cloneOpts, authErr) ==
    IF authErr # ""
    THEN [err |-> "unable to initialize Git auth options for Git repository "
                  \o GetNamespace(repo) \o "/" \o GetName(repo) \o ": " \o authErr,
          path |-> "", st |-> st]
    ELSE IF ~CloneSucceeds(cfg, repoURL)
    THEN [err |-> "unable to clone Git repository " \o repoURL \o ": "
                  \o CloneError,
          path |-> "",
          st |-> Logged(st, NetOp("clone", repoURL, repoPath, cfg))]
    ELSE [err |-> "", path |-> repoPath,
          st |-> Written(Logged(st, NetOp("clone", repoURL, repoPath, cfg)),
                         repoPath,
                         [kind |-> "git", url |-> repoURL,
                          strategy |-> cloneOpts.CheckoutStrategy])]

\* The credentials of the repository have been looked up.
credentialsFound(cfg, st, repo, repoPath, repoURL, cloneOpts, cloneURL, repoCreds) ==
    cloneWith(cfg, st, repo, repoPath,
              IF cloneURL = parseURL(repoURL) THEN repoURL ELSE urlString(cloneURL),
              cloneOpts,
              NewAuthOptions(cloneURL, repoCreds.creds))

\* A variant of cloneInto that clones also when the directory exists.
cloneIntoAlways(cfg, st, repo, repoURL, repoPath, cloneOpts) ==
    credentialsFound(
        cfg, st, repo, repoPath, repoURL, cloneOpts,
        substituteHTTPS(parseURL(repoURL),
                        FindForRepo(cfg.credentials, parseURL(repoURL))),
        FindForRepo(cfg.credentials, parseURL(repoURL)))

\* The clone into repoPath, unless the directory exists already.
cloneInto(cfg, st, repo, repoURL, repoPath, cloneOpts) ==
    IF IsDir(st.disk, repoPath)
    THEN [err |-> "", path |-> repoPath, st |-> st]
    ELSE credentialsFound(
             cfg, st, repo, repoPath, repoURL, cloneOpts,
             substituteHTTPS(parseURL(repoURL),
                             FindForRepo(cfg.credentials, parseURL(repoURL))),
             FindForRepo(cfg.credentials, parseURL(repoURL)))

\* GitRepoSubstitution{URL, Branch, Path}: a local working copy to use in
\* place of a Git repository; NoSubst when none is given
GitRepoSubstitution(url, branch, path) ==
    [URL |-> url, Branch |-> branch, Path |-> path]

NoSubst == GitRepoSubstitution("", "", "")

\* A variant of substitutionMatches that does not look at the branch.
substitutionByURL(subst, repoURL, ref) ==
    subst # NoSubst /\ subst.URL = repoURL

\* The substitution stands for the repository at the reference: its URL is
\* the repository's, and its branch is the reference's, an empty branch
\* standing for no reference and for the branches main and master.
substitutionMatches(subst, repoURL, ref) ==
    /\ subst # NoSubst
    /\ subst.URL = repoURL
    /\ IF subst.Branch = ""
       THEN ref = NoRef \/ ref = [NoRef EXCEPT !.Branch = "main"]
            \/ ref = [NoRef EXCEPT !.Branch = "master"]
       ELSE ref.Branch = subst.Branch

\* Returns [err, path, st].
cloneRepo(cfg, st, repo, repoURL) ==
    cloneInto(cfg, st, repo, repoURL,
              gitRepoPath(cfg.cacheRoot, repoURL,
                          normalizeGitReference(repo.spec.ref)),
              CloneConfig(normalizeGitReference(repo.spec.ref)))

\* The local path of the substitution when it stands for the repository,
\* the clone otherwise.  Returns [err, path, st].
substituteOrClone(cfg, st, repo, repoURL) ==
    IF substitutionMatches(cfg.gitRepoSubst, repoURL, repo.spec.ref)
    THEN [err |-> "", path |-> cfg.gitRepoSubst.Path, st |-> st]
    ELSE cloneRepo(cfg, st, repo, repoURL)

gitChartKey(repoURL, chartName, ref) ==
    repoURL \o "#" \o chartName \o "#" \o ref.Branch \o "#" \o ref.Tag \o "#"
    \o ref.SemVer \o "#" \o ref.Name \o "#" \o ref.Commit

\* helmloader.LoadDir(chartPath) inside the checkout at repoPath
gitLoadDir(d, repoPath, chartPath) ==
    IF IsDir(d, repoPath) /\ d[repoPath].kind = "git"
       /\ TrimPrefix(chartPath, repoPath \o "/") \in DOMAIN GitTree(d[repoPath].url)
    THEN LoadChart(GitTree(d[repoPath].url)[TrimPrefix(chartPath, repoPath \o "/")])
    ELSE NoChart

\* The chart directory has been read.
gitChartLoaded(cfg, repoNode, repoURL, chartName, cloned, chart) ==
    IF chart = NoChart
    THEN Fail("unable to load chart " \o chartName \o " from GitRepository "
              \o GetNamespace(repoNode) \o "/" \o GetName(repoNode), cloned.st)
    ELSE finishLoad(
             cfg, repoURL, chartName, chart.version,
             loadChartDependencies(
                 cfg, cloned.st, chart,
                 [localRepoPath |-> cloned.path, chartName |-> chartName,
                  loader |-> "git", repoNode |-> repoNode]))

\* The checkout is available (or the clone failed).
gitRepoCloned(cfg, repoNode, repoURL, chartName, cloned) ==
    IF cloned.err # "" THEN Fail(cloned.err, cloned.st)
    ELSE gitChartLoaded(cfg, repoNode, repoURL, chartName, cloned,
                        gitLoadDir(cloned.st.disk, cloned.path,
                                   pathJoin(<<cloned.path, chartName>>)))

\* A variant of gitLoadKeyed that clones before it consults the in-memory
\* cache.
gitLoadKeyedCloneFirst(cfg, st, repoNode, repoURL, parentContext, chartName) ==
    IF cfg.cacheOn /\ cfg.key \in DOMAIN st.cache
    THEN Shared(st.cache[cfg.key],
                IF parentContext # NoContext THEN st
                ELSE substituteOrClone(cfg, st, repoNode, repoURL).st, cfg.key)
    ELSE gitRepoCloned(
             cfg, repoNode, repoURL, chartName,
             IF parentContext # NoContext
             THEN [err |-> "", path |-> parentContext.localRepoPath, st |-> st]
             ELSE substituteOrClone(cfg, st, repoNode, repoURL))

\* The chart key is known: the in-memory cache is consulted, then the
\* parent's checkout is used or the repository cloned.
gitLoadKeyed(cfg, st, repoNode, repoURL, parentContext, chartName) ==
    IF cfg.cacheOn /\ cfg.key \in DOMAIN st.cache
    THEN Shared(st.cache[cfg.key], st, cfg.key)
    ELSE gitRepoCloned(
             cfg, repoNode, repoURL, chartName,
             IF parentContext # NoContext
             THEN [err |-> "", path |-> parentContext.localRepoPath, st |-> st]
             ELSE substituteOrClone(cfg, st, repoNode, repoURL))

gitRepoURL(repoNode, repoURL) ==
    IF repoURL = "" THEN repoNode.spec.url ELSE repoURL

\* gitRepoChartLoader.loadRepositoryChart
gitLoadRepositoryChart(cfg, st, repoNode, repoURL, parentContext, chartName, chartVersionSpec) ==
    gitLoadKeyed(
        [cfg EXCEPT !.key = gitChartKey(gitRepoURL(repoNode, repoURL), chartName,
                                        normalizeGitReference(repoNode.spec.ref))],
        st, repoNode, gitRepoURL(repoNode, repoURL), parentContext, chartName)

-----------------------------------------------------------------------------
(* Helm (HTTP) loader *)

helmChartKey(repoURL, chartName, chartVersion) ==
    repoURL \o "#" \o chartName \o "#" \o chartVersion

IndexFileName == "repo-index.yaml"

\* IndexFile.Get: the highest version of the chart that satisfies the
\* constraint, "" when there is none
indexGet(index, chartName, chartVersionSpec) ==
    IF chartName \notin DOMAIN index THEN ""
    ELSE getLatestMatchingVersion(index[chartName], chartVersionSpec)

\* An HTTP GET of the repository succeeds
HelmReachable(cfg, repoURL) ==
    repoURL \notin cfg.down /\ DOMAIN HelmIndex(repoURL) # {}

\* A variant of downloadIndex that does not look into the cache directory.
downloadIndexAlways(cfg, st, repoURL, indexFilePath) ==
    IF ~HelmReachable(cfg, repoURL)
    THEN [err |-> "unable to download index file for Helm repository " \o repoURL,
          st |-> Logged(st, NetOp("index", repoURL, indexFilePath, cfg))]
    ELSE [err |-> "",
          st |-> Written(Logged(st, NetOp("index", repoURL, indexFilePath, cfg)),
                         indexFilePath, [kind |-> "file", url |-> repoURL])]

\* The index file is downloaded unless it is in the cache directory.
\* Returns [err, st].
downloadIndex(cfg, st, repoURL, indexFilePath) ==
    IF indexFilePath \in DOMAIN st.disk THEN [err |-> "", st |-> st]
    ELSE IF ~HelmReachable(cfg, repoURL)
    THEN [err |-> "unable to download index file for Helm repository " \o repoURL,
          st |-> Logged(st, NetOp("index", repoURL, indexFilePath, cfg))]
    ELSE [err |-> "",
          st |-> Written(Logged(st, NetOp("index", repoURL, indexFilePath, cfg)),
                         indexFilePath, [kind |-> "file", url |-> repoURL])]

\* The chart archive is downloaded into chartDir, replacing what is there.
\* Returns [err, chart, st].
downloadChart(cfg, st, repoURL, chartName, chartVersion, chartDir) ==
    IF ~HelmReachable(cfg, repoURL)
    THEN Fail("unable to download chart " \o repoURL \o chartName \o "-"
              \o chartVersion \o ".tgz", st)
    ELSE Ok(LoadChart(HelmChart(repoURL, chartName, chartVersion)),
            Written(st, chartDir,
                    [kind |-> "chart",
                     def |-> HelmChart(repoURL, chartName, chartVersion)]))

\* A variant of helmFetchChart that returns the failure of the load from
\* the cache directory.
helmFetchChartNoRetry(cfg, st, repoURL, chartName, chartVersion, chartDir) ==
    IF IsDir(st.disk, chartDir)
    THEN IF st.disk[chartDir].kind = "chart"
         THEN Ok(LoadChart(st.disk[chartDir].def), st)
         ELSE Fail("unable to load chart from " \o chartDir, st)
    ELSE downloadChart(
             cfg,
             Logged([st EXCEPT !.disk = RemoveAll(st.disk, chartDir)],
                    NetOp("chart", repoURL, chartDir, cfg)),
             repoURL, chartName, chartVersion, chartDir)

\* The chart from the cache directory; downloaded when there is no such
\* directory or the chart in it does not load, the directory removed
\* first.  A file at chartDir leaves the chart nil without an error.
helmFetchChart(cfg, st, repoURL, chartName, chartVersion, chartDir) ==
    IF IsDir(st.disk, chartDir) /\ st.disk[chartDir].kind = "chart"
    THEN Ok(LoadChart(st.disk[chartDir].def), st)
    ELSE IF chartDir \in DOMAIN st.disk /\ ~IsDir(st.disk, chartDir)
    THEN Ok(NoChart, st)
    ELSE downloadChart(
             cfg,
             Logged([st EXCEPT !.disk = RemoveAll(st.disk, chartDir)],
                    NetOp("chart", repoURL, chartDir, cfg)),
             repoURL, chartName, chartVersion, chartDir)

helmChartFetched(cfg, repoURL, chartName, fetched) ==
    IF fetched.err # "" THEN fetched
    ELSE IF fetched.chart = NoChart THEN Fail(NilChartPanic, fetched.st)
    ELSE finishLoad(cfg, repoURL, chartName, fetched.chart.version,
                    loadChartDependencies(cfg, fetched.st, fetched.chart,
                                          NoContext))

\* The index is available (or its download failed): the version is
\* resolved, then the in-memory cache is consulted.
helmIndexLoaded(cfg, repoURL, repoPath, chartName, chartVersionSpec, chartVersion, indexed) ==
    IF indexed.err # "" THEN Fail(indexed.err, indexed.st)
    ELSE IF chartVersion = ""
    THEN Fail("unable to get chart " \o chartName \o "/" \o chartVersionSpec
              \o " from Helm repository " \o repoURL, indexed.st)
    ELSE IF cfg.cacheOn /\ cfg.key \in DOMAIN indexed.st.cache
    THEN Shared(indexed.st.cache[cfg.key], indexed.st, cfg.key)
    ELSE helmChartFetched(
             cfg, repoURL, chartName,
             helmFetchChart(cfg, indexed.st, repoURL, chartName, chartVersion,
                            pathJoin(<<repoPath, chartName \o "-" \o chartVersion>>)))

helmLoadKeyed(cfg, st, repoURL, repoPath, chartName, chartVersionSpec, chartVersion) ==
    helmIndexLoaded(cfg, repoURL, repoPath, chartName, chartVersionSpec,
                    chartVersion,
                    downloadIndex(cfg, st, repoURL,
                                  pathJoin(<<repoPath, IndexFileName>>)))

helmLoadFrom(cfg, st, repoURL, chartName, chartVersionSpec, chartVersion) ==
    helmLoadKeyed([cfg EXCEPT !.key = helmChartKey(repoURL, chartName, chartVersion)],
                  st, repoURL, getCachePathForRepo(cfg.cacheRoot, repoURL, FALSE),
                  chartName, chartVersionSpec, chartVersion)

helmLoadURL(cfg, st, repoURL, chartName, chartVersionSpec) ==
    helmLoadFrom(cfg, st, repoURL, chartName, chartVersionSpec,
                 indexGet(HelmIndex(repoURL), chartName, chartVersionSpec))

\* helmRepoChartLoader.loadRepositoryChart
helmLoadRepositoryChart(cfg, st, repoNode, repoURL, parentContext, chartName, chartVersionSpec) ==
    helmLoadURL(cfg, st,
                normalizeURL(IF repoNode # NoNode THEN repoNode.spec.url
                             ELSE repoURL),
                chartName, chartVersionSpec)

-----------------------------------------------------------------------------
(* OCI loader *)

ociSchemePrefix == OCIScheme \o "://"

\* isRepoInsecure as its comment-free switch reads to one who expects the
\* case "https" to share the body of the case "oci".
isRepoInsecureBySchemes(repo, repoURL) ==
    IF repo # NoNode THEN SpecInsecure(repo)
    ELSE repoURL.Scheme \notin {"https", "oci"}

\* isRepoInsecure: the flag of the repository when there is one; without
\* one the switch returns false in the case "oci" only, the case "https"
\* having no statements and leaving the switch.
isRepoInsecure(repo, repoURL) ==
    IF repo # NoNode THEN SpecInsecure(repo)
    ELSE IF repoURL.Scheme = "oci" THEN FALSE
    ELSE TRUE

\* Every character of s is one of the characters of class
AllIn(s, class) ==
    \A i \in 1..Len(s) : \E j \in 1..Len(class) : Char(s, i) = Char(class, j)

\* ecrRepoRegex: ^[0-9]+[.]dkr[.]ecr[.][a-z0-9-]+[.]amazonaws.com$ (the
\* last dot matches any character), on the account, the region and the
\* end of the host
ecrMatchParts(account, region, end) ==
    /\ account # "" /\ AllIn(account, "0123456789")
    /\ region # "" /\ AllIn(region, "abcdefghijklmnopqrstuvwxyz0123456789-")
    /\ Len(end) = 14 /\ SubSeq(end, 1, 10) = ".amazonaws" /\ SubSeq(end, 12, 14) = "com"

ecrRepoRegexMatch(host) ==
    /\ Index(host, ".dkr.ecr.") # 0
    /\ Len(host) >= Index(host, ".dkr.ecr.") + 8 + 14
    /\ ecrMatchParts(SubSeq(host, 1, Index(host, ".dkr.ecr.") - 1),
                     SubSeq(host, Index(host, ".dkr.ecr.") + 9, Len(host) - 14),
                     SubSeq(host, Len(host) - 13, Len(host)))

\* A variant of isEcrRepo that looks at the host name also when there is a
\* repository resource.
isEcrRepoOrHost(repo, repoHost) ==
    (repo # NoNode /\ SpecProvider(repo) = "aws") \/ ecrRepoRegexMatch(repoHost)

isEcrRepo(repo, repoHost) ==
    IF repo # NoNode THEN SpecProvider(repo) = "aws"
    ELSE ecrRepoRegexMatch(repoHost)

\* The login of the registry client, as logged
LoginOp(repoURL, host, username, password, cfg) ==
    [op |-> "login", url |-> repoURL, path |-> host, key |-> cfg.key,
     rel |-> cfg.rel, inv |-> cfg.inv, plainHTTP |-> cfg.plainHTTP,
     username |-> username, password |-> password]

\* The AWS account the program runs with lets it log in
AwsAccount == "aws"

\* awsLogin: the user name and password of the registry from AWS.
\* Returns [err, username, password, st].
awsLogin(cfg, st, repoURL, host) ==
    IF AwsAccount \in cfg.down
    THEN [err |-> "unable to log in to AWS registry " \o host
                  \o ": unable to log into repository " \o host,
          username |-> "", password |-> "",
          st |-> Logged(st, NetOp("awslogin", repoURL, host, cfg))]
    ELSE [err |-> "", username |-> "AWS", password |-> "token",
          st |-> Logged(st, NetOp("awslogin", repoURL, host, cfg))]

\* The user name and password of the credentials, else those of AWS when
\* the registry is one of ECR.  Returns [err, username, password, st].
ociCredentials(cfg, st, repo, repoURL, parsedURL, repoCreds) ==
    IF repoCreds.creds.username = "" /\ repoCreds.creds.password = ""
       /\ isEcrRepo(repo, parsedURL.Host)
    THEN awsLogin(cfg, st, repoURL, parsedURL.Host)
    ELSE [err |-> "", username |-> repoCreds.creds.username,
          password |-> repoCreds.creds.password, st |-> st]

\* repoClient.Login when there is a user name or a password.
\* Returns [err, st].
ociLogin(cfg, repoURL, parsedURL, auth) ==
    IF auth.err # "" THEN [err |-> auth.err, st |-> auth.st]
    ELSE IF auth.username # "" \/ auth.password # ""
    THEN [err |-> IF repoURL \in cfg.down
                  THEN "unable to log in to registry " \o parsedURL.Host ELSE "",
          st |-> Logged(auth.st, LoginOp(repoURL, parsedURL.Host, auth.username,
                                         auth.password, cfg))]
    ELSE [err |-> "", st |-> auth.st]

\* A registry request succeeds
OciReachable(cfg, repoURL) == repoURL \notin cfg.down

\* The tags have been listed.
tagsListed(st, chartRef, tags, chartVersionSpec, reachable) ==
    IF ~reachable
    THEN [err |-> "unable to fetch tags for " \o chartRef, version |-> "",
          st |-> st]
    ELSE IF tags = <<>>
    THEN [err |-> "unable to locate any tags for " \o chartRef, version |-> "",
          st |-> st]
    ELSE IF getLatestMatchingVersion(tags, chartVersionSpec) = ""
    THEN [err |-> "unable to find latest tag for chart " \o chartRef,
          version |-> "", st |-> st]
    ELSE [err |-> "", version |-> getLatestMatchingVersion(tags, chartVersionSpec),
          st |-> st]

\* Returns [err, version, st]: a version spec that is a version is used as
\* it is, otherwise the registry's tags are listed.
getChartVersion(cfg, st, repoURL, chartName, chartVersionSpec) ==
    IF IsVersion(chartVersionSpec)
    THEN [err |-> "", version |-> chartVersionSpec, st |-> st]
    ELSE tagsListed(
             Logged(st, NetOp("tags", repoURL,
                              pathJoin(<<TrimPrefix(repoURL, ociSchemePrefix),
                                         chartName>>), cfg)),
             pathJoin(<<TrimPrefix(repoURL, ociSchemePrefix), chartName>>),
             OciTags(repoURL, chartName), chartVersionSpec,
             OciReachable(cfg, repoURL))

getChartPath(repoPath, chartName, chartVersion) ==
    pathJoin(<<repoPath, chartName \o "-" \o chartVersion>>)

\* The registry serves the chart at the version
Pullable(cfg, repoURL, chartName, chartVersion) ==
    /\ OciReachable(cfg, repoURL)
    /\ \E i \in DOMAIN OciTags(repoURL, chartName) :
          OciTags(repoURL, chartName)[i] = chartVersion

\* The pull of chartRef into chartPath.  Returns [err, chart, st].
ociPull(cfg, st, repoURL, chartName, chartVersion, chartPath, chartRef) ==
    IF ~Pullable(cfg, repoURL, chartName, chartVersion)
    THEN Fail("unable to download chart " \o chartRef
              \o " for version constraint " \o chartVersion,
              Logged(st, NetOp("pull", repoURL, chartRef, cfg)))
    ELSE IF chartPath \in DOMAIN st.disk /\ ~IsDir(st.disk, chartPath)
    THEN Fail("unable to save chart files to cache for chart " \o chartName
              \o "/" \o chartVersion \o " in " \o repoURL,
              Logged(st, NetOp("pull", repoURL, chartRef, cfg)))
    ELSE Ok(LoadChart(OciChart(repoURL, chartName, chartVersion)),
            Written(Logged(st, NetOp("pull", repoURL, chartRef, cfg)), chartPath,
                    [kind |-> "chart",
                     def |-> OciChart(repoURL, chartName, chartVersion)]))

ociChartPulled(cfg, repoURL, chartName, pulled) ==
    IF pulled.err # "" THEN pulled
    ELSE finishLoad(cfg, repoURL, chartName, pulled.chart.version,
                    loadChartDependencies([cfg EXCEPT !.plainHTTP = FALSE],
                                          pulled.st, pulled.chart, NoContext))

\* A variant of ociLoadVersion that does not look into the cache directory.
ociLoadVersionNoDisk(cfg, st, repoURL, chartName, chartVersion, chartPath) ==
    IF cfg.cacheOn
       /\ helmChartKey(repoURL, chartName, chartVersion) \in DOMAIN st.cache
    THEN Shared(st.cache[helmChartKey(repoURL, chartName, chartVersion)], st,
                helmChartKey(repoURL, chartName, chartVersion))
    ELSE ociChartPulled(
             [cfg EXCEPT !.key = helmChartKey(repoURL, chartName, chartVersion)],
             repoURL, chartName,
             ociPull(cfg, st, repoURL, chartName, chartVersion, chartPath,
                     pathJoin(<<TrimPrefix(repoURL, ociSchemePrefix), chartName>>)
                     \o ":" \o chartVersion))

\* A variant of ociLoadVersion that returns the failure of the load from
\* the cache directory and leaves the directory.
ociLoadVersionSurfacing(cfg, st, repoURL, chartName, chartVersion, chartPath) ==
    IF cfg.cacheOn
       /\ helmChartKey(repoURL, chartName, chartVersion) \in DOMAIN st.cache
    THEN Shared(st.cache[helmChartKey(repoURL, chartName, chartVersion)], st,
                helmChartKey(repoURL, chartName, chartVersion))
    ELSE IF IsDir(st.disk, chartPath)
    THEN IF st.disk[chartPath].kind = "chart"
         THEN Ok(LoadChart(st.disk[chartPath].def), st)
         ELSE Fail("unable to load chart from " \o chartPath, st)
    ELSE ociChartPulled(
             [cfg EXCEPT !.key = helmChartKey(repoURL, chartName, chartVersion)],
             repoURL, chartName,
             ociPull(cfg, st, repoURL, chartName, chartVersion, chartPath,
                     pathJoin(<<TrimPrefix(repoURL, ociSchemePrefix), chartName>>)
                     \o ":" \o chartVersion))

\* The version is resolved: the in-memory cache is consulted, then the
\* cache directory, whose chart is returned as it is, then the registry.
\* When the chart in the cache directory does not load the directory is
\* removed and a nil chart is returned without an error.
ociLoadVersion(cfg, st, repoURL, chartName, chartVersion, chartPath) ==
    IF cfg.cacheOn
       /\ helmChartKey(repoURL, chartName, chartVersion) \in DOMAIN st.cache
    THEN Shared(st.cache[helmChartKey(repoURL, chartName, chartVersion)], st,
                helmChartKey(repoURL, chartName, chartVersion))
    ELSE IF IsDir(st.disk, chartPath)
    THEN IF st.disk[chartPath].kind = "chart"
         THEN Ok(LoadChart(st.disk[chartPath].def), st)
         ELSE Ok(NoChart, [st EXCEPT !.disk = RemoveAll(st.disk, chartPath)])
    ELSE ociChartPulled(
             [cfg EXCEPT !.key = helmChartKey(repoURL, chartName, chartVersion)],
             repoURL, chartName,
             ociPull(cfg, st, repoURL, chartName, chartVersion, chartPath,
                     pathJoin(<<TrimPrefix(repoURL, ociSchemePrefix), chartName>>)
                     \o ":" \o chartVersion))

ociVersionResolved(cfg, repoURL, repoPath, chartName, chartVersionSpec, version) ==
    IF version.err # ""
    THEN Fail("unable to find version " \o chartVersionSpec \o " for chart "
              \o chartName \o " in repository " \o repoURL \o ": "
              \o version.err, version.st)
    ELSE ociLoadVersion(cfg, version.st, repoURL, chartName, version.version,
                        getChartPath(repoPath, chartName, version.version))

\* The version the registry resolves a version spec to ("" for none): the
\* chart identity the requests are made for.
ociIdentity(repoURL, chartName, chartVersionSpec) ==
    helmChartKey(repoURL, chartName,
                 IF IsVersion(chartVersionSpec) THEN chartVersionSpec
                 ELSE getLatestMatchingVersion(OciTags(repoURL, chartName),
                                               chartVersionSpec))

ociLoadURL(cfg, st, repoURL, chartName, chartVersionSpec) ==
    ociVersionResolved(cfg, repoURL,
                       getCachePathForRepo(cfg.cacheRoot, repoURL, FALSE),
                       chartName, chartVersionSpec,
                       getChartVersion(cfg, st, repoURL, chartName,
                                       chartVersionSpec))

\* The client has logged in, or has no need to, or has failed to.
ociLoggedIn(cfg, repoURL, chartName, chartVersionSpec, loggedIn) ==
    IF loggedIn.err # "" THEN Fail(loggedIn.err, loggedIn.st)
    ELSE ociLoadURL(cfg, loggedIn.st, repoURL, chartName, chartVersionSpec)

\* The registry client is created, insecure or not, and logs in.
ociLoadWithClient(cfg, st, repo, repoURL, chartName, chartVersionSpec) ==
    ociLoggedIn(cfg, repoURL, chartName, chartVersionSpec,
                ociLogin(cfg, repoURL, parseURL(repoURL),
                         ociCredentials(cfg, st, repo, repoURL, parseURL(repoURL),
                                        FindForRepo(cfg.credentials,
                                                    parseURL(repoURL)))))

\* ociRepoChartLoader.loadRepositoryChart
ociLoadRepositoryChart(cfg, st, repoNode, repoURL, parentContext, chartName, chartVersionSpec) ==
    ociLoadWithClient(
        [cfg EXCEPT !.key =
            ociIdentity(normalizeURL(IF repoNode # NoNode THEN repoNode.spec.url
                                     ELSE repoURL),
                        chartName, chartVersionSpec),
                    !.plainHTTP =
            isRepoInsecure(repoNode,
                           parseURL(normalizeURL(IF repoNode # NoNode
                                                 THEN repoNode.spec.url
                                                 ELSE repoURL)))],
        st, repoNode,
        normalizeURL(IF repoNode # NoNode THEN repoNode.spec.url ELSE repoURL),
        chartName, chartVersionSpec)

\* repositoryLoader.loadRepositoryChart, dispatched on the loader
loaderLoad(loader, cfg, st, repoNode, repoURL, parentContext, chartName, chartVersion) ==
    CASE loader = "git" ->
            gitLoadRepositoryChart(cfg, st, repoNode, repoURL, parentContext,
                                   chartName, chartVersion)
      [] loader = "helm" ->
            helmLoadRepositoryChart(cfg, st, repoNode, repoURL, parentContext,
                                    chartName, chartVersion)
      [] loader = "oci" ->
            ociLoadRepositoryChart(cfg, st, repoNode, repoURL, parentContext,
                                   chartName, chartVersion)

-----------------------------------------------------------------------------
(* Rendering: the template engine's output for the charts of the world.    *)
(* A manifest is [key, docs]: the template's path and the documents its    *)
(* text parses to (none for a blank manifest).                             *)

Rendered(apiVersion, kind, namespace, name, values) ==
    Node(apiVersion, kind, namespace, name, [data |-> values])

Template(t, releaseName, namespace, values) ==
    CASE t = "cm" ->
            <<Rendered("v1", "ConfigMap", namespace, releaseName \o "-cm", values)>>
      [] t = "sec" ->
            <<Rendered("v1", "Secret", namespace, releaseName \o "-sec", values)>>
      [] t = "fixed" ->
            <<Rendered("v1", "ConfigMap", "", "fixed", values)>>
      [] t = "twin" ->
            <<Rendered("v1", "ConfigMap", "", "fixed", values)>>
      [] t = "rel" ->
            <<HelmRelease(namespace, releaseName \o "-in", "c/leaf", "",
                          SourceRef("GitRepository", "gen", "", ""), values)>>
      [] t = "repo" ->
            <<GitRepository(SourceApi, "", "gen", GitURL, NoRef)>>
      [] t = "loop" ->
            <<HelmRelease(namespace, releaseName \o "-l", "c/loop", "",
                          SourceRef("GitRepository", "local", "", ""), values)>>
      [] t = "NOTES.txt" ->
            <<Rendered("v1", "Notes", namespace, releaseName, values)>>
      [] OTHER -> <<>>

TemplateKey(prefix, t) ==
    prefix \o "/templates/" \o (IF t = "NOTES.txt" THEN t ELSE t \o ".yaml")

RECURSIVE RenderTemplates(_, _, _, _, _, _)
RenderTemplates(templates, i, prefix, releaseName, namespace, values) ==
    IF i > Len(templates) THEN <<>>
    ELSE <<[key  |-> TemplateKey(prefix, templates[i]),
            docs |-> Template(templates[i], releaseName, namespace, values)]>>
         \o RenderTemplates(templates, i + 1, prefix, releaseName, namespace, values)

\* engine.Render: the manifests of a chart and of the charts attached to it
RECURSIVE Render(_, _, _, _, _)
RECURSIVE RenderDependencies(_, _, _, _, _, _)
Render(chart, prefix, releaseName, namespace, values) ==
    RenderTemplates(chart.templates, 1, prefix, releaseName, namespace, values)
    \o RenderDependencies(chart.dependencies, 1, prefix, releaseName, namespace, values)

RenderDependencies(dependencies, i, prefix, releaseName, namespace, values) ==
    IF i > Len(dependencies) THEN <<>>
    ELSE Render(dependencies[i], prefix \o "/charts/" \o dependencies[i].name,
                releaseName, namespace, values)
         \o RenderDependencies(dependencies, i + 1, prefix, releaseName, namespace, values)

Reverse(s) == [i \in 1..Len(s) |-> s[Len(s) + 1 - i]]

\* filepath.Base
pathBase(p) == SplitSlash(p)[Len(SplitSlash(p))]

\* The documents of one manifest, each with the manifest's path as head
\* comment
manifestNodes(m) ==
    [j \in 1..Len(m.docs) |-> [m.docs[j] EXCEPT !.src = "Source: " \o m.key]]

\* The loop over the rendered manifests: blank manifests and NOTES.txt are
\* dropped.
RECURSIVE CollectManifests(_, _)
CollectManifests(manifests, i) ==
    IF i > Len(manifests) THEN <<>>
    ELSE (IF manifests[i].docs = <<>> \/ pathBase(manifests[i].key) = "NOTES.txt"
          THEN <<>>
          ELSE manifestNodes(manifests[i]))
         \o CollectManifests(manifests, i + 1)

\* A variant of namespaceFilter that sets the namespace of every node.
namespaceFilterAll(results, namespace) ==
    [i \in 1..Len(results) |->
        IF results[i].namespace = ""
        THEN [results[i] EXCEPT !.namespace = namespace,
                                !.keys = Append(@, "namespace")]
        ELSE [results[i] EXCEPT !.namespace = namespace]]

\* namespace.Filter with UnsetOnly: a node without namespace gets the key
\* namespace, added after the keys metadata has
namespaceFilter(results, namespace) ==
    [i \in 1..Len(results) |->
        IF results[i].namespace = ""
        THEN [results[i] EXCEPT !.namespace = namespace,
                                !.keys = Append(@, "namespace")]
        ELSE results[i]]

-----------------------------------------------------------------------------
(* Expansion of one release *)

TempDir == "/tmp/chart-repo-cache"

\* The loaderConfig of one top-level load.  env is
\* [chartCacheDir, cacheOn, down, inv, credentials, gitRepoSubst].
loaderConfig(env, release) ==
    [cacheRoot |-> IF env.chartCacheDir = "" THEN TempDir ELSE env.chartCacheDir,
     cacheOn |-> env.cacheOn, down |-> env.down, inv |-> env.inv,
     credentials |-> env.credentials, gitRepoSubst |-> env.gitRepoSubst,
     rel |-> GetNamespace(release) \o "/" \o GetName(release), key |-> "",
     plainHTTP |-> FALSE, depth |-> 0]

\* The deferred removal of the temporary cache directory
removeTemp(env, loaded) ==
    IF env.chartCacheDir = ""
    THEN [loaded EXCEPT !.st.disk = RemoveAll(loaded.st.disk, TempDir)]
    ELSE loaded

\* Returns [err, chart, st].
loadRepositoryChart(env, st, release, repoNode) ==
    IF getRepoFactory(repoNode) = ""
    THEN Fail(repoFactoryError(repoNode), st)
    ELSE removeTemp(env,
                    loaderLoad(getRepoFactory(repoNode), loaderConfig(env, release),
                               st, repoNode, "", NoContext, release.spec.chart,
                               release.spec.version))

targetNamespaceOf(release) ==
    IF release.spec.targetNamespace = "" THEN GetNamespace(release)
    ELSE release.spec.targetNamespace

releaseNameOf(release) ==
    IF release.spec.releaseName = ""
    THEN targetNamespaceOf(release) \o "-" \o GetName(release)
    ELSE release.spec.releaseName

\* The manifests of the chart, in the order the loop visits them
renderRelease(release, chart, reversed) ==
    IF reversed
    THEN Reverse(Render(chart, chart.name, releaseNameOf(release),
                        targetNamespaceOf(release), release.spec.values))
    ELSE Render(chart, chart.name, releaseNameOf(release),
                targetNamespaceOf(release), release.spec.values)

\* The values document that sets the paths of all conditions to false
ValuesOff == "off"

\* processDependencyConditions: the dependency stays enabled unless the
\* values have false at its condition path
Enabled(dependency, values) == dependency.condition = "" \/ values # ValuesOff

\* The names of the dependencies of Chart.yaml that the values disable
DisabledNames(chart, values) ==
    {chart.deps[i].name : i \in {j \in 1..Len(chart.deps) :
                                    ~Enabled(chart.deps[j], values)}}

\* A variant of ProcessDependencies that leaves the chart as it is.
ProcessDependenciesNone(chart, values) == chart

\* chartutil.ProcessDependenciesWithMerge: the charts disabled by
\* conditions are removed from the chart it is given
ProcessDependencies(chart, values) ==
    [chart EXCEPT
        !.deps = SelectSeq(@, LAMBDA d : d.name \notin DisabledNames(chart, values)),
        !.dependencies = SelectSeq(@, LAMBDA c : c.name \notin DisabledNames(chart, values))]

\* The chart the call worked on is the object the in-memory cache holds
\* under the key: the cache holds it as the call left it.
Processed(st, key, chart) ==
    IF key # "" /\ key \in DOMAIN st.cache
    THEN [st EXCEPT !.cache[key] = chart]
    ELSE st

\* The chart is loaded (or its load failed).
chartLoaded(release, repoNode, reversed, loaded) ==
    IF loaded.err # ""
    THEN [err |-> "unable to load chart for " \o GetKind(repoNode) \o " "
                  \o GetNamespace(repoNode) \o "/" \o GetName(repoNode)
                  \o ": " \o loaded.err,
          results |-> <<>>, st |-> loaded.st]
    ELSE IF loaded.chart = NoChart
    THEN [err |-> NilChartPanic, results |-> <<>>, st |-> loaded.st]
    ELSE [err |-> "",
          results |-> namespaceFilter(
                          CollectManifests(
                              renderRelease(
                                  release,
                                  ProcessDependencies(loaded.chart, release.spec.values),
                                  reversed), 1),
                          GetNamespace(release)),
          st |-> Processed(loaded.st, loaded.key,
                           ProcessDependencies(loaded.chart, release.spec.values))]

\* Returns [err, results, st].  reversed: the iteration over the rendered
\* manifests (a map) runs in the opposite order.
expandHelmRelease(env, st, releaseNode, repoNode, reversed) ==
    IF repoNode = NoNode
    THEN [err |-> "missing chart repository for Helm release "
                  \o GetNamespace(releaseNode) \o "/" \o GetName(releaseNode),
          results |-> <<>>, st |-> st]
    ELSE chartLoaded(releaseNode, repoNode, reversed,
                     loadRepositoryChart(env, st, releaseNode, repoNode))

-----------------------------------------------------------------------------
(* Matching releases to repositories *)

\* A variant of matchesRef that ignores the API version.
matchesRefAnyVersion(node, helmRelease, ref) ==
    /\ GetKind(node) = ref.kind
    /\ GetName(node) = ref.name
    /\ GetNamespace(node) = (IF ref.namespace = "" THEN GetNamespace(helmRelease)
                             ELSE ref.namespace)

\* Whether a node is the repository a sourceRef names
matchesRef(node, helmRelease, ref) ==
    /\ GetKind(node) = ref.kind
    /\ GetName(node) = ref.name
    /\ GetNamespace(node) = (IF ref.namespace = "" THEN GetNamespace(helmRelease)
                             ELSE ref.namespace)
    /\ (ref.apiVersion = "" \/ GetApiVersion(node) = ref.apiVersion)

\* The first node from the i-th on that matches, NoNode when there is none
RECURSIVE firstMatch(_, _, _)
firstMatch(allNodes, helmRelease, i) ==
    IF i > Len(allNodes) THEN NoNode
    ELSE IF matchesRef(allNodes[i], helmRelease, helmRelease.spec.sourceRef)
    THEN allNodes[i]
    ELSE firstMatch(allNodes, helmRelease, i + 1)

\* Returns [err, repo]; repo = NoNode when no node matches.
getRepositoryForHelmRelease(allNodes, helmRelease) ==
    IF helmRelease.spec.sourceRef.kind = ""
    THEN [err |-> "unable to get kind for the repository", repo |-> NoNode]
    ELSE IF helmRelease.spec.sourceRef.name = ""
    THEN [err |-> "unable to get name for the repository", repo |-> NoNode]
    ELSE [err |-> "", repo |-> firstMatch(allNodes, helmRelease, 1)]

isHelmRelease(node) ==
    GetGroup(node) = HelmReleaseGroup /\ GetKind(node) = "HelmRelease"

RECURSIVE SelectReleases(_, _)
SelectReleases(releaseNodes, i) ==
    IF i > Len(releaseNodes) THEN <<>>
    ELSE (IF isHelmRelease(releaseNodes[i]) THEN <<releaseNodes[i]>> ELSE <<>>)
         \o SelectReleases(releaseNodes, i + 1)

RECURSIVE PairReleases(_, _, _, _)

\* The repository of the i-th release has been looked up.
releasePaired(repoNodes, helmReleases, i, pairs, found) ==
    IF found.err # ""
    THEN [err |-> "unable to find repository for HelmRelease "
                  \o GetNamespace(helmReleases[i]) \o "/"
                  \o GetName(helmReleases[i]) \o ": " \o found.err,
          pairs |-> <<>>]
    ELSE PairReleases(repoNodes, helmReleases, i + 1,
                      Append(pairs, [release |-> helmReleases[i],
                                     repo |-> found.repo]))

\* The loop of getReleaseRepos over the releases, from the i-th on
PairReleases(repoNodes, helmReleases, i, pairs) ==
    IF i > Len(helmReleases) THEN [err |-> "", pairs |-> pairs]
    ELSE releasePaired(repoNodes, helmReleases, i, pairs,
                       getRepositoryForHelmRelease(repoNodes, helmReleases[i]))

\* Returns [err, pairs].
getReleaseRepos(repoNodes, releaseNodes) ==
    PairReleases(repoNodes, SelectReleases(releaseNodes, 1), 1, <<>>)

-----------------------------------------------------------------------------
(* One round *)

\* The comparison function of the sort: -1, 0 or 1
compareNodes(a, b) ==
    IF StrLess(GetKind(a), GetKind(b)) THEN -1
    ELSE IF StrLess(GetKind(b), GetKind(a)) THEN 1
    ELSE IF StrLess(GetApiVersion(a), GetApiVersion(b)) THEN -1
    ELSE IF StrLess(GetApiVersion(b), GetApiVersion(a)) THEN 1
    ELSE IF StrLess(GetNamespace(a), GetNamespace(b)) THEN -1
    ELSE IF StrLess(GetNamespace(b), GetNamespace(a)) THEN 1
    ELSE IF StrLess(GetName(a), GetName(b)) THEN -1
    ELSE IF StrLess(GetName(b), GetName(a)) THEN 1
    ELSE 0

\* x inserted after every element that does not compare greater than it
RECURSIVE InsertStable(_, _)
InsertStable(sorted, x) ==
    IF sorted = <<>> THEN <<x>>
    ELSE IF compareNodes(x, Head(sorted)) < 0 THEN <<x>> \o sorted
    ELSE <<Head(sorted)>> \o InsertStable(Tail(sorted), x)

RECURSIVE SortFrom(_, _, _)
SortFrom(s, i, acc) ==
    IF i > Len(s) THEN acc ELSE SortFrom(s, i + 1, InsertStable(acc, s[i]))

\* A variant of SortStable that leaves the nodes as they are.
Unsorted(s) == s

\* slices.SortStableFunc(result, compareNodes)
SortStable(s) == SortFrom(s, 1, <<>>)

RECURSIVE ExpandPairs(_, _, _, _, _)

\* The i-th release has been expanded.
releaseExpanded(env, done, pairs, i, rev, expanded) ==
    IF expanded.err # ""
    THEN [err |-> "unable to expand Helm release "
                  \o GetNamespace(pairs[i].release) \o "/"
                  \o GetName(pairs[i].release) \o ": " \o expanded.err,
          results |-> <<>>, st |-> expanded.st]
    ELSE ExpandPairs(env,
                     [err |-> "", results |-> done.results \o expanded.results,
                      st |-> expanded.st],
                     pairs, i + 1, rev)

\* The loop over the release/repository pairs, from the i-th on.  done is
\* [err, results, st] so far; the result has the same shape.
ExpandPairs(env, done, pairs, i, rev) ==
    IF i > Len(pairs) THEN done
    ELSE releaseExpanded(env, done, pairs, i, rev,
                         expandHelmRelease(env, done.st, pairs[i].release,
                                           pairs[i].repo, i \in rev))

\* A variant of releasesExpanded that puts the new nodes first.
releasesExpandedPrepend(allNodes, pairs, expanded) ==
    IF expanded.err # ""
    THEN [err |-> expanded.err, nodes |-> <<>>, newNodes |-> <<>>,
          st |-> expanded.st, pairs |-> pairs]
    ELSE [err |-> "", nodes |-> SortFrom(expanded.results, 1, <<>>) \o allNodes,
          newNodes |-> SortFrom(expanded.results, 1, <<>>), st |-> expanded.st,
          pairs |-> pairs]

\* The releases have been expanded: their nodes are sorted and appended.
releasesExpanded(allNodes, pairs, expanded) ==
    IF expanded.err # ""
    THEN [err |-> expanded.err, nodes |-> <<>>, newNodes |-> <<>>,
          st |-> expanded.st, pairs |-> pairs]
    ELSE [err |-> "", nodes |-> allNodes \o SortStable(expanded.results),
          newNodes |-> SortStable(expanded.results), st |-> expanded.st,
          pairs |-> pairs]

\* The releases have been matched to their repositories.
releasesPaired(env, st, allNodes, rev, releaseRepos) ==
    IF releaseRepos.err # ""
    THEN [err |-> "unable to get release repos: " \o releaseRepos.err,
          nodes |-> <<>>, newNodes |-> <<>>, st |-> st, pairs |-> <<>>]
    ELSE releasesExpanded(allNodes, releaseRepos.pairs,
                          ExpandPairs(env, [err |-> "", results |-> <<>>, st |-> st],
                                      releaseRepos.pairs, 1, rev))

\* A variant of filterStep that selects the releases from all nodes.
filterStepAllNodes(env, st, allNodes, nodesToRender, rev) ==
    releasesPaired(env, st, allNodes, rev,
                   getReleaseRepos(allNodes, allNodes))

\* Returns [err, nodes, newNodes, st, pairs].  rev: the releases (by
\* position) whose manifests are iterated in the opposite order.
filterStep(env, st, allNodes, nodesToRender, rev) ==
    releasesPaired(env, st, allNodes, rev,
                   getReleaseRepos(allNodes, nodesToRender))

\* A variant of afterRound without the break.
afterRoundNoBreak(newNodesOut) == "filter"

\* Where Filter's loop goes after a round: it breaks when the round
\* produced nothing.
afterRound(newNodesOut) ==
    IF Len(newNodesOut) = 0 THEN "return" ELSE "filter"

-----------------------------------------------------------------------------
(* Bounds *)

MaxDocs == 3         \* documents in the input stream of the pipeline runs
MaxReleases == 2     \* releases in the input stream of the caching runs
MaxRounds == 2       \* largest round limit tried
MaxInvocations == 2  \* successive ExpandHelmReleases calls

-----------------------------------------------------------------------------
(* Input documents *)

LocalRef == SourceRef("GitRepository", "local", "", "")

\* Documents for the expansion pipeline: two repositories of the same kind,
\* namespace and name that differ in their API version, and releases of
\* the charts of the world.
PipelineDocs ==
    <<GitRepository(SourceApi, "a", "local", GitURL, NoRef),
      GitRepository(SourceApiBeta, "a", "local", AltGitURL, NoRef),
      HelmRelease("a", "y", "c/fixed", "", LocalRef, "v2"),
      HelmRelease("a", "z", "c/fixed", "", LocalRef, "v3"),
      HelmRelease("a", "n", "c/nest", "", LocalRef, "v4"),
      HelmRelease("a", "l", "c/loop", "", LocalRef, "v5"),
      HelmRelease("a", "v", "c/void", "", LocalRef, "v6"),
      HelmRelease("b", "q", "c/leaf", "",
                  SourceRef("GitRepository", "local", "a", SourceApiBeta), "v7")>>

\* The sequences of at most n distinct documents of docs
RECURSIVE Arrangements(_, _)
Arrangements(docs, n) ==
    IF n = 0 THEN {<<>>}
    ELSE LET shorter == Arrangements(docs, n - 1)
         IN  shorter \cup
             {Append(s, docs[i]) : s \in {t \in shorter : Len(t) = n - 1},
                                   i \in 1..Len(docs)}

Distinct(s) == \A i, j \in 1..Len(s) : i # j => s[i] # s[j]

Inputs(docs, n) == {s \in Arrangements(docs, n) : Distinct(s)}

\* The Git references of the caching runs: the default branch, a branch, a
\* name under refs/heads, a commit, a tag, a semver range and a name under
\* refs/tags.
GitRefs ==
    {NoRef,
     [NoRef EXCEPT !.Branch = "main"],
     [NoRef EXCEPT !.Name = "refs/heads/main"],
     [NoRef EXCEPT !.Commit = "c0ffee"],
     [NoRef EXCEPT !.Tag = "v1"],
     [NoRef EXCEPT !.SemVer = ">=1.0.0"],
     [NoRef EXCEPT !.Name = "refs/tags/v1"]}

\* Two Git repository resources with the same URL and reference
GitRepos(ref) ==
    <<GitRepository(SourceApi, "a", "g", GitURL, ref),
      GitRepository(SourceApi, "a", "k", GitURL, ref)>>

\* Two Git repository resources with the same URL, one without reference
\* and one at the branch master
DefaultAndMaster ==
    <<GitRepository(SourceApi, "a", "g", GitURL, NoRef),
      GitRepository(SourceApi, "a", "k", GitURL, [NoRef EXCEPT !.Branch = "master"])>>

GitReleases ==
    <<HelmRelease("a", "x", "c/leaf", "", SourceRef("GitRepository", "g", "", ""), "v1"),
      HelmRelease("a", "y", "c/leaf", "", SourceRef("GitRepository", "k", "", ""), "v2"),
      HelmRelease("a", "p", "c/par", "", SourceRef("GitRepository", "g", "", ""), "v3")>>

RegistryRepos ==
    <<HelmRepository("a", "h", HelmURL, ""),
      HelmRepository("a", "i", HelmURL \o "/", ""),
      HelmRepository("a", "o", OciURL, "oci")>>

RegistryReleases ==
    <<HelmRelease("a", "s", "hleaf", ">=0.1.0", SourceRef("HelmRepository", "h", "", ""), "v4"),
      HelmRelease("a", "t", "hleaf", "", SourceRef("HelmRepository", "i", "", ""), "v5"),
      HelmRelease("a", "u", "oleaf", "", SourceRef("HelmRepository", "o", "", ""), "v6"),
      HelmRelease("a", "w", "oleaf", "0.2.0", SourceRef("HelmRepository", "o", "", ""), "v7"),
      HelmRelease("a", "r", "oleaf", ">=0.1.0", SourceRef("HelmRepository", "o", "", ""), "v8")>>

CacheDir == "/cache"

\* An SSH key and host keys
KeyBag == Bag("", "", "key", "hosts")

\* An SSH key for each of the two SSH repositories, keyed by their URLs
DummySSHCreds == [u \in {GitURL, AltGitURL} |-> KeyBag]

\* Credential bags: a user with a password, a password alone, a user
\* alone, a key with a user and a password, a key without host keys
UserPassBag == Bag("u", "pw", "", "")
PassOnlyBag == Bag("", "pw", "", "")
UserOnlyBag == Bag("u", "", "", "")
UserPassKeyBag == Bag("u", "pw", "key", "hosts")
KeyNoHostsBag == Bag("", "", "key", "")

AuthBags == {KeyBag, UserPassBag, PassOnlyBag, UserOnlyBag, UserPassKeyBag,
             KeyNoHostsBag}

\* The URLs of the Git repository of the credential runs
AuthURLs == {GitURL, GitPortURL, GitHttpsURL}

NoCredentials == [k \in {} |-> NoBag]

\* The credentials of the credential runs: none, one entry keyed by a URL
\* or by the host name, or an entry keyed by the URL and one by the host
AuthCredentials ==
    {NoCredentials}
    \cup {[k \in {key} |-> bag] : key \in AuthURLs \cup {"h"}, bag \in AuthBags}
    \cup {[k \in {GitURL, "h"} |-> IF k = "h" THEN byHost ELSE byURL] :
             byURL \in {KeyBag, UserPassBag}, byHost \in {KeyBag, UserPassBag}}

\* Two releases of the same chart of the Git repository
AuthReleases ==
    <<HelmRelease("a", "x", "c/leaf", "", SourceRef("GitRepository", "g", "", ""), "v1"),
      HelmRelease("a", "z", "c/leaf", "", SourceRef("GitRepository", "g", "", ""), "v2")>>

\* Releases of charts of the Git repository that have dependencies: in
\* the checkout (file://../leaf, file://./sub), in a Helm repository, in an
\* OCI registry, and at a URL no loader handles
DependencyReleases ==
    <<HelmRelease("a", "p", "c/par", "", SourceRef("GitRepository", "g", "", ""), "v3"),
      HelmRelease("a", "d", "c/dot", "", SourceRef("GitRepository", "g", "", ""), "v4"),
      HelmRelease("a", "o", "c/opar", "", SourceRef("GitRepository", "g", "", ""), "v5"),
      HelmRelease("a", "b", "c/bad", "", SourceRef("GitRepository", "g", "", ""), "v6")>>

-----------------------------------------------------------------------------
(* The state machine *)

EmptyCache == [k \in {} |-> NoChart]
EmptyDisk == [p \in {} |-> [kind |-> "file"]]

\* The state before the first call
\* No second call
PeerOff == [pc |-> "off", nodes |-> <<>>, newNodes |-> <<>>, round |-> 0,
            cache |-> EmptyCache, err |-> "", output |-> <<>>]

\* The first call has not begun
NotCalled ==
    /\ pc = "idle"
    /\ invocation = 0
    /\ nodes = <<>>
    /\ newNodes = <<>>
    /\ round = 0
    /\ chartCache = EmptyCache
    /\ err = ""
    /\ output = <<>>
    /\ netLog = <<>>
    /\ produced = <<>>
    /\ bound = <<>>

Idle ==
    /\ peer = PeerOff
    /\ pc = "idle"
    /\ invocation = 0
    /\ nodes = <<>>
    /\ newNodes = <<>>
    /\ round = 0
    /\ chartCache = EmptyCache
    /\ err = ""
    /\ output = <<>>
    /\ netLog = <<>>
    /\ produced = <<>>
    /\ bound = <<>>

\* One call without a cache directory, on any input and round limit
Init ==
    /\ Idle
    /\ runs = 1
    /\ input \in Inputs(PipelineDocs, MaxDocs)
    /\ maxExpansions \in -1..MaxRounds
    /\ chartCacheDir = ""
    /\ enableChartInMemoryCache = TRUE
    /\ netDown = {}
    /\ credentials = DummySSHCreds
    /\ gitRepoSubst = NoSubst
    /\ disk = EmptyDisk

\* Successive calls, with or without a cache directory and in-memory
\* cache, on releases of Git charts ...
InitGit ==
    /\ \E repos \in {GitRepos(ref) : ref \in GitRefs} \cup {DefaultAndMaster} :
          input \in {repos \o s : s \in Inputs(GitReleases, MaxReleases)}
    /\ netDown \in {{}, {HelmURL \o "/"}}

\* ... or on releases of charts of a Helm repository and an OCI registry
InitRegistry ==
    /\ input \in {RegistryRepos \o s : s \in Inputs(RegistryReleases, MaxReleases)}
    /\ netDown \in {{}, {OciURL}}

InitCache ==
    /\ Idle
    /\ runs = MaxInvocations
    /\ maxExpansions = 1
    /\ chartCacheDir \in {"", CacheDir}
    /\ enableChartInMemoryCache \in BOOLEAN
    /\ credentials = DummySSHCreds
    /\ gitRepoSubst = NoSubst
    /\ disk = EmptyDisk
    /\ (InitGit \/ InitRegistry)

\* One call on releases of a chart of a Git repository, with any of the
\* credentials, the repository reachable or not at either of its URLs
InitAuth ==
    /\ Idle
    /\ runs = 1
    /\ maxExpansions = 1
    /\ chartCacheDir = ""
    /\ enableChartInMemoryCache = FALSE
    /\ credentials \in AuthCredentials
    /\ gitRepoSubst = NoSubst
    /\ disk = EmptyDisk
    /\ netDown \in {{}, {GitURL, GitPortURL}, {GitHttpsURL}}
    /\ \E url \in AuthURLs :
          input \in {<<GitRepository(SourceApi, "a", "g", url, NoRef)>> \o s :
                        s \in Inputs(AuthReleases, MaxReleases)}

\* One call on releases of charts with dependencies, the repositories of
\* the dependencies reachable or not
InitDependencies ==
    /\ Idle
    /\ runs = 1
    /\ maxExpansions = 1
    /\ chartCacheDir \in {"", CacheDir}
    /\ enableChartInMemoryCache \in BOOLEAN
    /\ credentials = DummySSHCreds
    /\ gitRepoSubst = NoSubst
    /\ disk = EmptyDisk
    /\ netDown \in SUBSET {HelmURL \o "/", OciURL}
    /\ input \in {<<GitRepository(SourceApi, "a", "g", GitURL, NoRef)>> \o s :
                    s \in Inputs(DependencyReleases, MaxReleases)}

SubstRefs ==
    {NoRef, [NoRef EXCEPT !.Branch = "main"], [NoRef EXCEPT !.Branch = "master"],
     [NoRef EXCEPT !.Branch = "trunk"], [NoRef EXCEPT !.Tag = "v1"]}

Substitutions ==
    {NoSubst} \cup {GitRepoSubstitution(url, branch, WorkingCopy) :
                       url \in {GitURL, AltGitURL}, branch \in {"", "main", "trunk"}}

\* One call on releases of a chart of a Git repository at any reference,
\* with or without a substitution, the working copy being on the disk
InitSubst ==
    /\ Idle
    /\ runs = 1
    /\ maxExpansions = 1
    /\ chartCacheDir \in {"", CacheDir}
    /\ enableChartInMemoryCache \in BOOLEAN
    /\ credentials = DummySSHCreds
    /\ gitRepoSubst \in Substitutions
    /\ disk = [p \in {WorkingCopy} |-> [kind |-> "git", url |-> WorkingCopy]]
    /\ netDown = {}
    /\ \E ref \in SubstRefs :
          input \in {<<GitRepository(SourceApi, "a", "g", GitURL, ref)>> \o s :
                        s \in Inputs(AuthReleases, MaxReleases)}

\* The release with spec.targetNamespace set
Targeted(release, targetNamespace) ==
    [release EXCEPT !.spec.targetNamespace = targetNamespace]

\* Releases of charts whose templates declare the release's namespace
\* (c/leaf), declare none (c/fixed) or produce a release and its
\* repository (c/nest), with and without a target namespace
NamespaceReleases ==
    <<HelmRelease("a", "x", "c/leaf", "", SourceRef("GitRepository", "g", "", ""), "v1"),
      Targeted(HelmRelease("a", "t", "c/leaf", "",
                           SourceRef("GitRepository", "g", "", ""), "v2"), "t"),
      Targeted(HelmRelease("a", "f", "c/fixed", "",
                           SourceRef("GitRepository", "g", "", ""), "v3"), "t"),
      HelmRelease("a", "n", "c/nest", "", SourceRef("GitRepository", "g", "", ""), "v4"),
      HelmRelease("b", "k", "c/fixed", "", SourceRef("GitRepository", "g", "a", ""), "v5")>>

\* One call on these releases, with any round limit
InitNamespace ==
    /\ Idle
    /\ runs = 1
    /\ maxExpansions \in 1..(MaxRounds + 1)
    /\ chartCacheDir = ""
    /\ enableChartInMemoryCache = TRUE
    /\ credentials = DummySSHCreds
    /\ gitRepoSubst = NoSubst
    /\ disk = EmptyDisk
    /\ netDown = {}
    /\ input \in {<<GitRepository(SourceApi, "a", "g", GitURL, NoRef)>> \o s :
                    s \in Inputs(NamespaceReleases, MaxReleases)}

\* The cache directories of the highest versions of the chart of the Helm
\* repository and of the chart of the OCI registry
StaleChartDirs ==
    {getChartPath(getCachePathForRepo(CacheDir, HelmURL \o "/", FALSE), "hleaf", "0.2.0"),
     getChartPath(getCachePathForRepo(CacheDir, OciURL, FALSE), "oleaf", "0.2.0")}

\* A directory whose content does not load as a chart
Corrupt == [kind |-> "corrupt"]

\* Successive calls with a cache directory in which chart directories are
\* corrupt, on releases of the charts of the Helm repository and the OCI
\* registry
InitCorrupt ==
    /\ Idle
    /\ runs = MaxInvocations
    /\ maxExpansions = 1
    /\ chartCacheDir = CacheDir
    /\ enableChartInMemoryCache \in BOOLEAN
    /\ credentials = DummySSHCreds
    /\ gitRepoSubst = NoSubst
    /\ disk \in {[p \in stale |-> Corrupt] : stale \in SUBSET StaleChartDirs}
    /\ netDown = {}
    /\ input \in {RegistryRepos \o s : s \in Inputs(RegistryReleases, MaxReleases)}

\* Releases of charts of the Git repository with relative dependencies:
\* c/cyca and c/cycb depend on each other
CycleReleases ==
    <<HelmRelease("a", "y1", "c/cyca", "", SourceRef("GitRepository", "g", "", ""), "v1"),
      HelmRelease("a", "y2", "c/cycb", "", SourceRef("GitRepository", "g", "", ""), "v2"),
      HelmRelease("a", "y3", "c/cyca", "", SourceRef("GitRepository", "g", "", ""), "v3"),
      HelmRelease("a", "y4", "c/cond", "", SourceRef("GitRepository", "g", "", ""), "v4")>>

\* One call on these releases, with each cache on or off
InitCycles ==
    /\ Idle
    /\ runs = 1
    /\ maxExpansions = 1
    /\ chartCacheDir \in {"", CacheDir}
    /\ enableChartInMemoryCache \in BOOLEAN
    /\ credentials = DummySSHCreds
    /\ gitRepoSubst = NoSubst
    /\ disk = EmptyDisk
    /\ netDown = {}
    /\ input \in {<<GitRepository(SourceApi, "a", "g", GitURL, ref)>> \o s :
                    ref \in {NoRef, [NoRef EXCEPT !.Tag = "v1"]},
                    s \in Inputs(CycleReleases, MaxReleases)}

\* Releases of the charts of the Helm repository and of the OCI registry
\* that declare dependencies
ParentReleases ==
    <<HelmRelease("a", "q1", "hrel", "", SourceRef("HelmRepository", "h", "", ""), "v1"),
      HelmRelease("a", "q2", "orel", "", SourceRef("HelmRepository", "o", "", ""), "v2"),
      HelmRelease("a", "q3", "hdep", "", SourceRef("HelmRepository", "h", "", ""), "v3"),
      HelmRelease("a", "q4", "hdep", "", SourceRef("HelmRepository", "h", "", ""), "v4"),
      HelmRelease("a", "q5", "odep", "", SourceRef("HelmRepository", "o", "", ""), "v5"),
      HelmRelease("a", "q6", "odep", "", SourceRef("HelmRepository", "o", "", ""), "v6")>>

\* Successive calls on releases of charts of the Helm repository and of
\* the OCI registry that declare dependencies, with each cache on or off
InitParents ==
    /\ Idle
    /\ runs = MaxInvocations
    /\ maxExpansions = 1
    /\ chartCacheDir \in {"", CacheDir}
    /\ enableChartInMemoryCache \in BOOLEAN
    /\ credentials = DummySSHCreds
    /\ gitRepoSubst = NoSubst
    /\ disk = EmptyDisk
    /\ netDown = {}
    /\ input \in {RegistryRepos \o s : s \in Inputs(ParentReleases, MaxReleases)}

\* A file where a chart directory is expected
StrayFile == [kind |-> "file"]

\* Successive calls with a cache directory in which, at the paths of chart
\* directories, there are directories that do not load or files
InitEntries ==
    /\ Idle
    /\ runs = MaxInvocations
    /\ maxExpansions = 1
    /\ chartCacheDir = CacheDir
    /\ enableChartInMemoryCache \in BOOLEAN
    /\ credentials = DummySSHCreds
    /\ gitRepoSubst = NoSubst
    /\ disk \in UNION {[stale -> {Corrupt, StrayFile}] :
                         stale \in SUBSET StaleChartDirs}
    /\ netDown = {}
    /\ input \in {RegistryRepos \o s : s \in Inputs(RegistryReleases, MaxReleases)}

\* Releases of the chart c/cond, whose dependency leaf has a condition,
\* with values that disable the dependency and values that do not, and a
\* release of the chart of the dependency
SharingReleases ==
    <<HelmRelease("a", "d", "c/cond", "", SourceRef("GitRepository", "g", "", ""), ValuesOff),
      HelmRelease("a", "e", "c/cond", "", SourceRef("GitRepository", "g", "", ""), "v1"),
      HelmRelease("a", "x", "c/leaf", "", SourceRef("GitRepository", "g", "", ""), "v2")>>

\* One call on these releases, with or without the in-memory cache
InitSharing ==
    /\ Idle
    /\ runs = 1
    /\ maxExpansions = 1
    /\ chartCacheDir \in {"", CacheDir}
    /\ enableChartInMemoryCache \in BOOLEAN
    /\ credentials = DummySSHCreds
    /\ gitRepoSubst = NoSubst
    /\ disk = EmptyDisk
    /\ netDown = {}
    /\ input \in {<<GitRepository(SourceApi, "a", "g", GitURL, ref)>> \o s :
                    ref \in {NoRef, [NoRef EXCEPT !.Tag = "v1"]},
                    s \in Inputs(SharingReleases, MaxReleases)}

\* Git references whose slots hold ordinary values, values with the
\* character '#' and names with '/' and '%'
SlotRefs ==
    {[Branch |-> b, Tag |-> t, SemVer |-> "", Name |-> n, Commit |-> c] :
        b \in {"", "a", "a#"}, t \in {"", "#"}, n \in {"", "n/x", "n%x"},
        c \in {"", "c0"}}

\* One call with a cache directory on two releases of the same chart, of
\* two Git repository resources of the same URL at any two references
InitRefs ==
    /\ Idle
    /\ runs = 1
    /\ maxExpansions = 1
    /\ chartCacheDir = CacheDir
    /\ enableChartInMemoryCache \in BOOLEAN
    /\ credentials = DummySSHCreds
    /\ gitRepoSubst = NoSubst
    /\ disk = EmptyDisk
    /\ netDown = {}
    /\ \E r1, r2 \in SlotRefs :
          input = <<GitRepository(SourceApi, "a", "g", GitURL, r1),
                    GitRepository(SourceApi, "a", "k", GitURL, r2),
                    GitReleases[1], GitReleases[2]>>

\* Repository resources of every kind, a kind that is no chart repository,
\* and Helm repositories whose spec.type is absent, "oci", another string,
\* or no string
KindRepos ==
    {GitRepository(SourceApi, "a", "r", GitURL, NoRef),
     OCIRepository("a", "r", OciURL),
     Node(SourceApi, "Bucket", "a", "r", [url |-> HelmURL, type |-> ""])}
    \cup {HelmRepository("a", "r", url, type) :
             url \in {HelmURL, OciURL},
             type \in {"", "oci", "default", "OCI", "!!int 1", "!!bool true"}}

KindCharts == {"c/leaf", "hleaf", "oleaf"}

\* One call on a repository resource and a release that names it
InitKinds ==
    /\ Idle
    /\ runs = 1
    /\ maxExpansions = 1
    /\ chartCacheDir \in {"", CacheDir}
    /\ enableChartInMemoryCache \in BOOLEAN
    /\ credentials = DummySSHCreds
    /\ gitRepoSubst = NoSubst
    /\ disk = EmptyDisk
    /\ netDown = {}
    /\ \E repo \in KindRepos, chart \in KindCharts :
          input = <<repo,
                    HelmRelease("a", "x", chart, "",
                                SourceRef(GetKind(repo), "r", "", ""), "v1")>>

\* One call on a release of a chart whose dependency is in a repository
\* given by its URL
InitSchemes ==
    /\ Idle
    /\ runs = 1
    /\ maxExpansions = 1
    /\ chartCacheDir \in {"", CacheDir}
    /\ enableChartInMemoryCache \in BOOLEAN
    /\ credentials = DummySSHCreds
    /\ gitRepoSubst = NoSubst
    /\ disk = EmptyDisk
    /\ netDown = {}
    /\ \E c \in SchemeCharts :
          input = <<GitRepository(SourceApi, "a", "g", GitURL, NoRef),
                    HelmRelease("a", "x", c.dir, "",
                                SourceRef("GitRepository", "g", "", ""), "v1")>>

\* Repository resources of a registry, at a host of ECR or not, at an https
\* URL, insecure or not, with a provider or none
ClientRepos ==
    {RegistryRepository(kind, "a", "r", url, insecure, provider) :
        kind \in {"HelmRepository", "OCIRepository"},
        url \in {OciURL, EcrURL, "https://h/o"},
        insecure \in BOOLEAN, provider \in {"", "generic", "aws"}}

\* Credentials for the hosts of the registries: none, or a bag with a user
\* name, a password, both or neither
ClientCredentials ==
    {DummySSHCreds}
    \cup {[k \in {GitURL, "h", EcrHost} |-> IF k = GitURL THEN KeyBag ELSE bag] :
             bag \in {UserPassBag, PassOnlyBag, UserOnlyBag, KeyBag}}

\* One call on a release of a chart of a registry, the registry given by a
\* repository resource or by the URL of a dependency, with AWS letting the
\* program log in or not
InitClients ==
    /\ Idle
    /\ runs = 1
    /\ maxExpansions = 1
    /\ chartCacheDir = ""
    /\ enableChartInMemoryCache = TRUE
    /\ credentials \in ClientCredentials
    /\ gitRepoSubst = NoSubst
    /\ disk = EmptyDisk
    /\ netDown \in {{}, {AwsAccount}}
    /\ \/ \E repo \in ClientRepos :
             input = <<repo,
                       HelmRelease("a", "x", "oleaf", "",
                                   SourceRef(GetKind(repo), "r", "", ""), "v1")>>
       \/ \E chart \in {"u/oci", "u/ecr"} :
             input = <<GitRepository(SourceApi, "a", "g", GitURL, NoRef),
                       HelmRelease("a", "x", chart, "",
                                   SourceRef("GitRepository", "g", "", ""), "v1")>>

\* Git references that float and one that is pinned
ConcurrentRefs ==
    {NoRef, [NoRef EXCEPT !.Branch = "dev"], [NoRef EXCEPT !.Tag = "v1"]}

\* Two calls at the same time on the same input, with the same cache
\* directory: a release of a chart of a Git repository, the chart rendering
\* a release of another chart of the repository or not
InitConcurrent ==
    /\ NotCalled
    /\ peer = [PeerOff EXCEPT !.pc = "idle"]
    /\ runs = 1
    /\ maxExpansions = MaxRounds
    /\ chartCacheDir = CacheDir
    /\ enableChartInMemoryCache \in BOOLEAN
    /\ credentials = DummySSHCreds
    /\ gitRepoSubst = NoSubst
    /\ disk = EmptyDisk
    /\ netDown = {}
    /\ \E ref \in ConcurrentRefs, chart \in {"c/leaf", "c/nest"} :
          input = <<GitRepository(SourceApi, "a", "g", GitURL, ref),
                    HelmRelease("a", "x", chart, "",
                                SourceRef("GitRepository", "g", "", ""), "v1")>>

Env == [chartCacheDir |-> chartCacheDir, cacheOn |-> enableChartInMemoryCache,
        down |-> netDown, inv |-> invocation, credentials |-> credentials,
        gitRepoSubst |-> gitRepoSubst]

State == [disk |-> disk, cache |-> chartCache, log |-> netLog]

\* The chart server that may have been stopped between two calls
Stopped == {HelmURL \o "/"}

\* ExpandHelmReleases is called: the in-memory cache is created and the
\* pipeline reads the input.
Expand ==
    /\ pc \in {"idle", "done"}
    /\ invocation < runs
    /\ pc' = "filter"
    /\ invocation' = invocation + 1
    /\ nodes' = input
    /\ newNodes' = input
    /\ round' = 0
    /\ chartCache' = EmptyCache
    /\ err' = ""
    /\ output' = <<>>
    /\ produced' = <<>>
    /\ bound' = <<>>
    /\ netDown' \in {netDown} \cup (IF invocation > 0 THEN {netDown \cup Stopped}
                                    ELSE {})
    /\ UNCHANGED <<peer, runs, input, maxExpansions, chartCacheDir,
                   enableChartInMemoryCache, credentials, gitRepoSubst,
                   disk, netLog>>

\* A variant of FilterAssign that hands every node to the next round.
FilterAssignAll(step) ==
    /\ disk' = step.st.disk
    /\ chartCache' = step.st.cache
    /\ netLog' = step.st.log
    /\ bound' = Append(bound, step.pairs)
    /\ IF step.err # ""
       THEN /\ err' = step.err
            /\ pc' = "return"
            /\ UNCHANGED <<nodes, newNodes, round, produced>>
       ELSE /\ nodes' = step.nodes
            /\ newNodes' = step.nodes
            /\ round' = round + 1
            /\ produced' = Append(produced, step.newNodes)
            /\ pc' = IF Len(step.newNodes) = 0 THEN "return" ELSE "filter"
            /\ err' = err

\* The assignments of one iteration of Filter's loop from filterStep's
\* result
FilterAssign(step) ==
    /\ disk' = step.st.disk
    /\ chartCache' = step.st.cache
    /\ netLog' = step.st.log
    /\ bound' = Append(bound, step.pairs)
    /\ IF step.err # ""
       THEN /\ err' = step.err
            /\ pc' = "return"
            /\ UNCHANGED <<nodes, newNodes, round, produced>>
       ELSE /\ nodes' = step.nodes
            /\ newNodes' = step.newNodes
            /\ round' = round + 1
            /\ produced' = Append(produced, step.newNodes)
            /\ pc' = afterRound(step.newNodes)
            /\ err' = err

\* Filter: one iteration of the loop over the rounds.
FilterStep ==
    /\ pc = "filter"
    /\ round < maxExpansions
    /\ \E rev \in SUBSET (1..Len(SelectReleases(newNodes, 1))) :
          FilterAssign(filterStep(Env, State, nodes, newNodes, rev))
    /\ UNCHANGED <<peer, runs, invocation, input, maxExpansions, chartCacheDir,
                   enableChartInMemoryCache, netDown, credentials, gitRepoSubst, output>>

\* A variant of FilterExit that reports nodes left to expand as an error.
FilterExitError ==
    /\ pc = "filter"
    /\ round >= maxExpansions
    /\ pc' = "return"
    /\ err' = IF newNodes # <<>> THEN "round limit reached" ELSE err
    /\ UNCHANGED <<peer, runs, invocation, input, maxExpansions, chartCacheDir,
                   enableChartInMemoryCache, netDown, credentials, gitRepoSubst, nodes, newNodes, round,
                   chartCache, disk, output, netLog, produced, bound>>

\* Filter: the loop ends because the round limit is reached.
FilterExit ==
    /\ pc = "filter"
    /\ round >= maxExpansions
    /\ pc' = "return"
    /\ UNCHANGED <<peer, runs, invocation, input, maxExpansions, chartCacheDir,
                   enableChartInMemoryCache, netDown, credentials, gitRepoSubst, nodes, newNodes, round,
                   chartCache, disk, err, output, netLog, produced, bound>>

\* A variant of Return that writes the nodes it has, error or not.
ReturnWritesPartial ==
    /\ pc = "return"
    /\ pc' = "done"
    /\ output' = nodes
    /\ disk' = IF chartCacheDir # ""
               THEN RemoveAll(disk, pathJoin(<<chartCacheDir, "ephemeral">>))
               ELSE disk
    /\ UNCHANGED <<peer, runs, invocation, input, maxExpansions, chartCacheDir,
                   enableChartInMemoryCache, netDown, credentials, gitRepoSubst, nodes,
                   newNodes, round, chartCache, err, netLog, produced, bound>>

\* A variant of Return that cleans up only after a success.
ReturnCleanupOnSuccess ==
    /\ pc = "return"
    /\ pc' = "done"
    /\ output' = IF err = "" THEN nodes ELSE <<>>
    /\ disk' = IF chartCacheDir # "" /\ err = ""
               THEN RemoveAll(disk, pathJoin(<<chartCacheDir, "ephemeral">>))
               ELSE disk
    /\ UNCHANGED <<peer, runs, invocation, input, maxExpansions, chartCacheDir,
                   enableChartInMemoryCache, netDown, credentials, gitRepoSubst, nodes, newNodes, round,
                   chartCache, err, netLog, produced, bound>>

\* ExpandHelmReleases returns: the pipeline writes the nodes unless the
\* filter failed, and the deferred function removes the ephemeral subtree.
Return ==
    /\ pc = "return"
    /\ pc' = "done"
    /\ output' = IF err = "" THEN nodes ELSE <<>>
    /\ disk' = IF chartCacheDir # ""
               THEN RemoveAll(disk, pathJoin(<<chartCacheDir, "ephemeral">>))
               ELSE disk
    /\ UNCHANGED <<peer, runs, invocation, input, maxExpansions, chartCacheDir,
                   enableChartInMemoryCache, netDown, credentials, gitRepoSubst, nodes, newNodes, round,
                   chartCache, err, netLog, produced, bound>>

Next == Expand \/ FilterStep \/ FilterExit \/ Return

\* The second call: its invocation number, its loaders' configuration and
\* the state its loads thread through (its own in-memory cache, the file
\* system and the network of the first)
PeerInvocation == 0

PeerEnv == [Env EXCEPT !.inv = PeerInvocation]

PeerState == [disk |-> disk, cache |-> peer.cache, log |-> netLog]

\* What the steps of the second call leave alone
PeerLeaves ==
    UNCHANGED <<pc, runs, invocation, input, maxExpansions, chartCacheDir,
                enableChartInMemoryCache, netDown, credentials, gitRepoSubst,
                nodes, newNodes, round, chartCache, err, output, produced, bound>>

\* ExpandHelmReleases is called a second time while the first call runs.
PeerExpand ==
    /\ peer.pc = "idle"
    /\ peer' = [peer EXCEPT !.pc = "filter", !.nodes = input, !.newNodes = input]
    /\ UNCHANGED <<disk, netLog>>
    /\ PeerLeaves

\* The assignments of one iteration of Filter's loop in the second call
PeerAssign(step) ==
    /\ disk' = step.st.disk
    /\ netLog' = step.st.log
    /\ peer' = IF step.err # ""
               THEN [peer EXCEPT !.cache = step.st.cache, !.err = step.err,
                                 !.pc = "return"]
               ELSE [peer EXCEPT !.cache = step.st.cache, !.nodes = step.nodes,
                                 !.newNodes = step.newNodes, !.round = @ + 1,
                                 !.pc = afterRound(step.newNodes)]

PeerFilterStep ==
    /\ peer.pc = "filter"
    /\ peer.round < maxExpansions
    /\ PeerAssign(filterStep(PeerEnv, PeerState, peer.nodes, peer.newNodes, {}))
    /\ PeerLeaves

PeerFilterExit ==
    /\ peer.pc = "filter"
    /\ peer.round >= maxExpansions
    /\ peer' = [peer EXCEPT !.pc = "return"]
    /\ UNCHANGED <<disk, netLog>>
    /\ PeerLeaves

\* The second call returns: its deferred function removes the ephemeral
\* subtree of the cache directory.
PeerReturn ==
    /\ peer.pc = "return"
    /\ peer' = [peer EXCEPT !.pc = "done",
                            !.output = IF peer.err = "" THEN peer.nodes ELSE <<>>]
    /\ disk' = IF chartCacheDir # ""
               THEN RemoveAll(disk, pathJoin(<<chartCacheDir, "ephemeral">>))
               ELSE disk
    /\ UNCHANGED netLog
    /\ PeerLeaves

\* Two calls at the same time: the steps of either, in any order
NextConcurrent ==
    \/ Expand \/ FilterStep \/ FilterExit \/ Return
    \/ PeerExpand \/ PeerFilterStep \/ PeerFilterExit \/ PeerReturn

Spec == Init /\ [][Next]_vars

\* The same machine, started on the caching runs
CacheSpec == InitCache /\ [][Next]_vars

\* The same machine, started on the credential runs
AuthSpec == InitAuth /\ [][Next]_vars

\* The same machine, started on the runs of charts with dependencies
DependencySpec == InitDependencies /\ [][Next]_vars

\* One call with a Git repository substitution
SubstSpec == InitSubst /\ [][Next]_vars

\* One call on releases with and without a target namespace
NamespaceSpec == InitNamespace /\ [][Next]_vars

\* Successive calls on a cache directory with corrupt chart directories
CorruptSpec == InitCorrupt /\ [][Next]_vars

\* One call on releases that share a chart with a conditional dependency
SharingSpec == InitSharing /\ [][Next]_vars

\* One call on two releases of a chart at two Git references
RefSpec == InitRefs /\ [][Next]_vars

\* One call on a repository resource of any kind and type
KindSpec == InitKinds /\ [][Next]_vars

\* One call on a chart with a dependency at a URL of any scheme
SchemeSpec == InitSchemes /\ [][Next]_vars

\* One call on a chart of a registry, the client created and logged in
ClientSpec == InitClients /\ [][Next]_vars

\* One call on charts whose relative dependencies form a cycle
CycleSpec == InitCycles /\ [][Next]_vars

\* Successive calls on charts of registries that declare dependencies
ParentSpec == InitParents /\ [][Next]_vars

\* Successive calls with unusable entries in the cache directory
EntrySpec == InitEntries /\ [][Next]_vars

\* Two calls at the same time with one cache directory
ConcurrentSpec == InitConcurrent /\ [][NextConcurrent]_vars

-----------------------------------------------------------------------------
(* Properties *)

\* The rounds' results, one after the other
RECURSIVE Flatten(_)
Flatten(ss) == IF ss = <<>> THEN <<>> ELSE Head(ss) \o Flatten(Tail(ss))

ReleaseId(release) == release.namespace \o "/" \o release.name

\* The operations that bring a chart's content over the network
FetchOps == {"clone", "chart", "pull"}

\* The positions in the log of the operations of one invocation
OpsOf(inv, ops) ==
    {i \in 1..Len(netLog) : netLog[i].inv = inv /\ netLog[i].op \in ops}

\* C1 as stated: with the in-memory cache enabled, no network operation of
\* any kind (clone, index download, chart download, tag listing, pull) is
\* performed twice for the same chart identity within one invocation.
C1_OneOperationPerIdentity ==
    enableChartInMemoryCache =>
        \A i, j \in 1..Len(netLog) :
            (i < j /\ netLog[i].inv = netLog[j].inv
                   /\ netLog[i].key = netLog[j].key)
                => netLog[i].op # netLog[j].op

\* C1, amended: with the in-memory cache enabled, the content of a chart
\* identity is fetched (Git clone, Helm chart download or OCI pull) at most
\* once within one invocation, through whichever repository resources the
\* releases reach it; index downloads and tag listings are not bounded.
C1_OneFetchPerIdentity ==
    enableChartInMemoryCache =>
        \A i, j \in 1..Len(netLog) :
            (i < j /\ netLog[i].inv = netLog[j].inv
                   /\ netLog[i].key = netLog[j].key)
                => ~(netLog[i].op \in FetchOps /\ netLog[j].op \in FetchOps)

\* Two releases of the same chart, bound to different repository resources
\* of the same URL, have been expanded without a cache directory and the
\* invocation has fetched once.
C1_Witness ==
    /\ enableChartInMemoryCache
    /\ chartCacheDir = ""
    /\ pc = "done"
    /\ err = ""
    /\ Len(bound) = 1
    /\ Len(bound[1]) = 2
    /\ bound[1][1].repo.name # bound[1][2].repo.name
    /\ bound[1][1].repo.spec.url = bound[1][2].repo.spec.url
    /\ bound[1][1].release.spec.chart = bound[1][2].release.spec.chart
    /\ Len(output) = Len(input) + 2
    /\ Cardinality(OpsOf(invocation, FetchOps)) = 1

FloatingRefs ==
    {NoRef, [NoRef EXCEPT !.Branch = "main"],
     [NoRef EXCEPT !.Name = "refs/heads/main"]}

\* <branch>#<tag>#<semver>#<name>#<commit>, slashes in the name replaced
\* by '%', of the references of C3 that are fixed
PinnedDir(ref) ==
    CASE ref = [NoRef EXCEPT !.Commit = "c0ffee"]     -> "####c0ffee"
      [] ref = [NoRef EXCEPT !.Tag = "v1"]            -> "#v1###"
      [] ref = [NoRef EXCEPT !.SemVer = ">=1.0.0"]    -> "##>=1.0.0##"
      [] ref = [NoRef EXCEPT !.Name = "refs/tags/v1"] -> "###refs%tags%v1#"

\* The directory of the Git repository's URL under the cache root
GitUrlDir == "ssh:##git@h#r.git"

\* Successive invocations share a cache directory, without in-memory cache,
\* and expand releases of charts of the Git repository.
SharedDiskCacheRun ==
    /\ chartCacheDir = CacheDir
    /\ ~enableChartInMemoryCache
    /\ netDown = {}
    /\ Len(input) > 2
    /\ GetKind(input[1]) = "GitRepository"

C4_FilterTerminates ==
    /\ [](round <= (IF maxExpansions > 0 THEN maxExpansions ELSE 0))
    /\ []((pc = "filter" /\ round > 0) => newNodes # <<>>)
    /\ []((pc \in {"return", "done"} /\ maxExpansions <= 0)
              => (round = 0 /\ nodes = input))
    /\ [][pc = "filter" => (pc' = "return" \/ round' = round + 1)]_vars

\* A chart whose template emits a release of the same chart has been
\* expanded round after round up to the limit, and the call has returned.
C4_Witness ==
    /\ pc = "done"
    /\ maxExpansions >= 2
    /\ round = maxExpansions
    /\ \E i \in 1..Len(newNodes) :
          isHelmRelease(newNodes[i]) /\ newNodes[i].spec.chart = "c/loop"

\* C5: when the round limit is reached and the last round produced nodes,
\* the call succeeds, the output ends with the nodes of the last round, and
\* the releases among them have not been expanded by any round.
C5_RoundLimitIsNotAnError ==
    (pc = "done" /\ maxExpansions > 0 /\ round = maxExpansions
                 /\ produced[round] # <<>>) =>
        /\ err = ""
        /\ Len(output) >= Len(produced[round])
        /\ SubSeq(output, Len(output) - Len(produced[round]) + 1, Len(output))
               = produced[round]
        /\ \A i \in 1..Len(produced[round]) :
              isHelmRelease(produced[round][i]) =>
                  \A k \in 1..Len(bound) : \A m \in 1..Len(bound[k]) :
                      bound[k][m].release # produced[round][i]

\* With round limit 1, a release emitted by a chart's template is in the
\* output of a successful call.
C5_Witness ==
    /\ pc = "done"
    /\ maxExpansions = 1
    /\ err = ""
    /\ \E j \in 1..Len(output) :
          /\ isHelmRelease(output[j])
          /\ output[j].src = "Source: nest/templates/rel.yaml"

\* C6: once a round has produced no node, a further round on the state
\* reached binds no release (so that no loader is invoked), produces no
\* node and leaves the node set, the caches and the log as they are.
C6_IdempotentAtFixedPoint ==
    (pc \in {"return", "done"} /\ err = "" /\ round > 0
                               /\ produced[round] = <<>>) =>
        LET again == filterStep(Env, State, nodes, newNodes, {})
        IN  /\ again.err = ""
            /\ again.pairs = <<>>
            /\ again.newNodes = <<>>
            /\ again.nodes = nodes
            /\ again.st = State

\* The fixed point has been reached after a round that produced nodes, on
\* a node set that holds a release.
C6_Witness ==
    /\ pc = "done"
    /\ err = ""
    /\ round >= 2
    /\ produced[1] # <<>>
    /\ produced[round] = <<>>
    /\ \E i \in 1..Len(nodes) : isHelmRelease(nodes[i])

\* C7: the node set is the input documents, as they were read and in their
\* order, followed by the nodes of round 1, then those of round 2, and so
\* on; a successful call writes exactly that.
C7_NodeSetGrowsByAppending ==
    /\ pc \in {"filter", "return", "done"} => nodes = input \o Flatten(produced)
    /\ (pc = "done" /\ err = "") => output = input \o Flatten(produced)

\* Two rounds have produced nodes and the call has written its output.
C7_Witness ==
    /\ pc = "done"
    /\ err = ""
    /\ Len(input) >= 2
    /\ Len(produced) >= 2
    /\ produced[1] # <<>>
    /\ produced[2] # <<>>
    /\ Len(output) = Len(input) + Len(produced[1]) + Len(produced[2])

\* (kind, apiVersion, namespace, name) of a is not after that of b
KeyLeq(a, b) ==
    \/ StrLess(a.kind, b.kind)
    \/ /\ a.kind = b.kind
       /\ \/ StrLess(a.apiVersion, b.apiVersion)
          \/ /\ a.apiVersion = b.apiVersion
             /\ \/ StrLess(a.namespace, b.namespace)
                \/ /\ a.namespace = b.namespace
                   /\ (StrLess(a.name, b.name) \/ a.name = b.name)

\* C8: the nodes a round appends are in non-decreasing order of (kind,
\* apiVersion, namespace, name), whatever the order of the releases in the
\* input.
C8_RoundOutputSorted ==
    \A k \in 1..Len(produced) :
        \A i, j \in 1..Len(produced[k]) :
            i < j => KeyLeq(produced[k][i], produced[k][j])

\* A round has expanded two releases, and the first node it appended comes
\* from the second release and is strictly before the last one.
C8_Witness ==
    /\ Len(bound) >= 1
    /\ Len(produced) >= 1
    /\ Len(bound[1]) = 2
    /\ Len(produced[1]) >= 2
    /\ produced[1][1].kind = "ConfigMap"
    /\ produced[1][1].spec.data = bound[1][2].release.spec.values
    /\ produced[1][1].spec.data # bound[1][1].release.spec.values
    /\ ~KeyLeq(produced[1][Len(produced[1])], produced[1][1])

\* The input in another order
Permuted(s, p) == [i \in 1..Len(s) |-> s[p[i]]]

\* C9: the nodes a round produces from the input are the same, in the same
\* order, for every order of the input documents.
C9_OrderIndependentOutput ==
    (pc = "filter" /\ round = 0) =>
        \A p \in Permutations(1..Len(input)) :
            LET here == filterStep(Env, State, input, input, {})
                there == filterStep(Env, State, Permuted(input, p),
                                    Permuted(input, p), {})
            IN  (here.err = "" /\ there.err = "")
                    => here.newNodes = there.newNodes

\* Whether a node is what a release's sourceRef names
Matches(node, release) ==
    /\ node.kind = release.spec.sourceRef.kind
    /\ node.name = release.spec.sourceRef.name
    /\ node.namespace = (IF release.spec.sourceRef.namespace = ""
                         THEN release.namespace
                         ELSE release.spec.sourceRef.namespace)
    /\ (release.spec.sourceRef.apiVersion # ""
            => node.apiVersion = release.spec.sourceRef.apiVersion)

\* The node set round k starts from
NodesBefore(k) == input \o Flatten(SubSeq(produced, 1, k - 1))

MissingRepository(release) ==
    "unable to expand Helm release " \o ReleaseId(release)
    \o ": missing chart repository for Helm release " \o ReleaseId(release)

\* C10: every release is bound to a node of the node set its round starts
\* from that has the kind, name, namespace (the release's own by default)
\* and, when given, apiVersion of its sourceRef.  When there is no such
\* node the call fails, no network operation is made for the release, and
\* the error names it unless a release before it in the round has failed.
C10_ReleaseBoundToMatchingRepository ==
    \A k \in 1..Len(bound) : \A m \in 1..Len(bound[k]) :
        IF bound[k][m].repo # NoNode
        THEN /\ \E i \in 1..Len(NodesBefore(k)) :
                    NodesBefore(k)[i] = bound[k][m].repo
             /\ Matches(bound[k][m].repo, bound[k][m].release)
        ELSE /\ \A i \in 1..Len(NodesBefore(k)) :
                    ~Matches(NodesBefore(k)[i], bound[k][m].release)
             /\ err # ""
             /\ \A i \in 1..Len(netLog) :
                    ~(netLog[i].inv = invocation
                      /\ netLog[i].rel = ReleaseId(bound[k][m].release))
             /\ \/ err = MissingRepository(bound[k][m].release)
                \/ \E j \in 1..(m - 1) :
                      HasPrefix(err, "unable to expand Helm release "
                                     \o ReleaseId(bound[k][j].release) \o ": ")

\* A round has expanded a release and has then failed on a release whose
\* sourceRef no node matches because of its apiVersion.
C10_Witness ==
    /\ pc = "done"
    /\ Len(bound) = 1
    /\ Len(bound[1]) = 2
    /\ bound[1][1].repo # NoNode
    /\ bound[1][2].repo = NoNode
    /\ bound[1][2].release.spec.sourceRef.apiVersion # ""
    /\ netLog # <<>>
    /\ err = MissingRepository(bound[1][2].release)

\* A release of some round of this call has no repository: its expansion
\* fails.
SomeReleaseFails ==
    \E k \in 1..Len(bound) : \E m \in 1..Len(bound[k]) : bound[k][m].repo = NoNode

\* C11: when the expansion of a release fails, in whatever round, the call
\* ends with an error, and a call that ends with an error has written
\* nothing to the output: neither the input documents nor the nodes of the
\* releases expanded before the failure.
C11_FailureWritesNothing ==
    /\ (pc \in {"return", "done"} /\ SomeReleaseFails) => err # ""
    /\ (pc \in {"return", "done"} /\ Len(bound) > round) => err # ""
    /\ err # "" => output = <<>>

\* A call has failed in its second round, after a first round that
\* produced nodes, and has returned.
C11_Witness ==
    /\ pc = "done"
    /\ err # ""
    /\ input # <<>>
    /\ round = 1
    /\ Len(bound) = 2
    /\ produced[1] # <<>>
    /\ output = <<>>

\* The releases of the input that name the OCI chart by a version
\* constraint that is not a version
FloatingOciReleases ==
    {i \in 1..Len(input) :
        /\ isHelmRelease(input[i])
        /\ input[i].spec.chart = "oleaf"
        /\ ~IsVersion(input[i].spec.version)}

\* The positions in the log of the operations op made for a chart identity
OpsFor(key, op) ==
    {i \in 1..Len(netLog) : netLog[i].key = key /\ netLog[i].op = op}

OciLeafKey == ociIdentity(OciURL, "oleaf", "")

\* C12: when every call so far has succeeded, the registry's tags have
\* been listed once for each resolution of the OCI chart by a version
\* constraint, and the chart has been pulled once: once in all with a
\* cache directory (the later resolutions, of this and of later calls, are
\* served from it), once per call with the in-memory cache alone.  A pull
\* comes after the tag listing of the same resolution.
C12_TagsPerResolutionOnePull ==
    (pc = "done" /\ netDown = {} /\ FloatingOciReleases # {}
                 /\ (chartCacheDir # "" \/ enableChartInMemoryCache)) =>
        /\ err = ""
        /\ Cardinality(OpsFor(OciLeafKey, "tags"))
               = invocation * Cardinality(FloatingOciReleases)
        /\ \A inv \in 1..invocation : \A i \in FloatingOciReleases :
              Cardinality({j \in OpsFor(OciLeafKey, "tags") :
                              /\ netLog[j].inv = inv
                              /\ netLog[j].rel = ReleaseId(input[i])}) = 1
        /\ IF chartCacheDir # ""
           THEN Cardinality(OpsFor(OciLeafKey, "pull")) = 1
           ELSE \A inv \in 1..invocation :
                   Cardinality({j \in OpsFor(OciLeafKey, "pull") :
                                   netLog[j].inv = inv}) = 1
        /\ \A j \in OpsFor(OciLeafKey, "pull") :
              netLog[j].rel \in {ReleaseId(input[i]) : i \in FloatingOciReleases}
                  => \E t \in OpsFor(OciLeafKey, "tags") :
                        /\ t < j
                        /\ netLog[t].inv = netLog[j].inv
                        /\ netLog[t].rel = netLog[j].rel

\* Two calls that share a cache directory, without the in-memory cache,
\* have each resolved the OCI chart for two releases with version
\* constraints: four tag listings and one pull.
C12_Witness ==
    /\ pc = "done"
    /\ invocation = 2
    /\ chartCacheDir # ""
    /\ ~enableChartInMemoryCache
    /\ netDown = {}
    /\ err = ""
    /\ Cardinality(FloatingOciReleases) = 2
    /\ Cardinality(OpsFor(OciLeafKey, "tags")) = 4
    /\ Cardinality(OpsFor(OciLeafKey, "pull")) = 1

\* The reference {branch: master}
MasterRef == [NoRef EXCEPT !.Branch = "master"]

\* The cache root of the invocation
CacheRoot == IF chartCacheDir = "" THEN TempDir ELSE chartCacheDir

\* The first Git repository of the input has no reference.
DefaultRefRun ==
    /\ Len(input) > 2
    /\ GetKind(input[1]) = "GitRepository"
    /\ input[1].spec.ref = NoRef

\* The in-memory cache keys of the charts of the Git repository at the
\* branch master
MasterKeys == {gitChartKey(GitURL, c, MasterRef) : c \in {"c/leaf", "c/par"}}

AuthRepoURL == input[1].spec.url

ResolvedCreds == FindForRepo(credentials, parseURL(AuthRepoURL))

\* The positions in the log of the calls of Clone
Clones == {j \in 1..Len(netLog) : netLog[j].op = "clone"}

\* The resolved credentials have a username and a password and no identity,
\* and the URL of the repository has the scheme ssh.
PairWithoutIdentityOverSSH ==
    /\ ResolvedCreds.found
    /\ ResolvedCreds.creds.username # ""
    /\ ResolvedCreds.creds.password # ""
    /\ ResolvedCreds.creds.identity = ""
    /\ parseURL(AuthRepoURL).Scheme = "ssh"

\* C14: when the credentials resolved for the Git repository have a
\* username/password pair and no identity and the URL scheme is ssh, Clone
\* is called with the https URL of the same host without userinfo; in every
\* other case Clone is called with the URL of the repository as it is.
C14_RewriteOnlyForPair ==
    /\ \A j \in Clones :
          netLog[j].url = IF PairWithoutIdentityOverSSH
                          THEN GitHttpsURL
                          ELSE AuthRepoURL
    /\ (pc = "done" /\ Len(input) > 1 /\ PairWithoutIdentityOverSSH) => Clones # {}

\* The text occurs in the message
Mentions(msg, text) ==
    \E i \in 1..(Len(msg) - Len(text) + 1) :
        SubSeq(msg, i, i + Len(text) - 1) = text

\* C15: finding no credential entry is no error by itself: a repository
\* with an http(s) URL and no entry is cloned, and no error ever says that
\* credentials could not be found.  For an ssh URL and no entry the
\* resolution fails when the auth options are built: the error says that
\* 'identity' is required, Clone is never called and nothing is written.
C15_NoCredentialsFailsOnlyAtAuthOptions ==
    /\ ~Mentions(err, "unable to find credentials")
    /\ (~ResolvedCreds.found /\ Len(input) > 1) =>
          IF parseURL(AuthRepoURL).Scheme = "ssh"
          THEN /\ Clones = {}
               /\ pc \in {"return", "done"} =>
                     /\ Mentions(err, "unable to initialize Git auth options "
                                      \o "for Git repository a/g: ")
                     /\ Mentions(err, "'identity' is required")
                     /\ output = <<>>
          ELSE /\ err # "" => Mentions(err, "unable to clone Git repository")
               /\ pc \in {"return", "done"} => Clones # {}
               /\ (pc = "done" /\ AuthRepoURL \notin netDown) =>
                     /\ err = ""
                     /\ Len(output) > Len(input)

\* The expansion of a release of a repository with an ssh URL has failed
\* for want of an identity, the credentials having no entry for it.
C15_Witness ==
    /\ pc = "done"
    /\ AuthRepoURL = GitURL
    /\ netDown = {}
    /\ credentials = [k \in {GitHttpsURL} |-> KeyBag]
    /\ Len(input) = 2
    /\ ~ResolvedCreds.found
    /\ Mentions(err, "'identity' is required")
    /\ netLog = <<>>
    /\ output = <<>>

\* The message of a failed clone of the URL
CloneFailure(url) ==
    "unable to clone Git repository " \o url \o ": " \o CloneError

\* C16: a failed clone is fatal and not retried: once Clone has failed,
\* the failing entry is the last of the log and the only call of Clone made
\* for its release, the call returns an error that ends with the message
\* of the failed clone, naming the URL given to Clone and wrapping the
\* error of the client, and nothing is written.
C16_CloneFailureFatalNoRetry ==
    \A j \in Clones :
        netLog[j].url \in netDown =>
            /\ j = Len(netLog)
            /\ \A i \in Clones : netLog[i].rel = netLog[j].rel => i = j
            /\ pc \in {"return", "done"} =>
                  /\ HasSuffix(err, CloneFailure(netLog[j].url))
                  /\ Mentions(err, "unable to expand Helm release "
                                   \o netLog[j].rel \o ": ")
                  /\ output = <<>>

\* The clone for the first of two releases of an unreachable repository
\* has failed, once, and the call has returned its error.
C16_Witness ==
    /\ pc = "done"
    /\ netDown = {GitURL, GitPortURL}
    /\ AuthRepoURL = GitURL
    /\ credentials = [k \in {"h"} |-> KeyBag]
    /\ Len(input) = 3
    /\ Cardinality(Clones) = 1
    /\ err = "unable to expand Helm release " \o ReleaseId(input[2]) \o ": "
             \o "unable to load chart for GitRepository a/g: "
             \o CloneFailure(GitURL)
    /\ output = <<>>

\* The entry the credentials should yield for the repository: the one keyed
\* by its full URL, else the one keyed by its bare host name, else none
ExpectedCreds ==
    IF AuthRepoURL \in DOMAIN credentials
    THEN [found |-> TRUE, creds |-> credentials[AuthRepoURL]]
    ELSE IF "h" \in DOMAIN credentials
    THEN [found |-> TRUE, creds |-> credentials["h"]]
    ELSE [found |-> FALSE, creds |-> NoBag]

KeyOf(chartName) ==
    gitChartKey(GitURL, chartName, normalizeGitReference(input[1].spec.ref))

\* A release of the chart is in the input.
Releases(chartName) ==
    {i \in 2..Len(input) : input[i].spec.chart = chartName}

\* The rendered template cm.yaml of a dependency of a release
RenderedDependency(n, release, parent, dependency) ==
    /\ n.src = "Source: " \o parent \o "/charts/" \o dependency
               \o "/templates/cm.yaml"
    /\ GetNamespace(n) = "a"
    /\ GetName(n) = "a-" \o release \o "-cm"

\* The positions in the log of the calls of Clone made for a release
ClonesFor(rel) == {j \in Clones : netLog[j].rel = rel}

\* The call on the release of the chart alone has returned.
ReturnedFor(chartName) ==
    /\ Len(input) = 2
    /\ input[2].spec.chart = chartName
    /\ pc = "done"

\* The dependency leaf of c/par, of repository file://../leaf, is read from
\* the checkout of the parent at c/leaf without another clone and is
\* attached to the parent.
ParentRelativeDependency ==
    /\ joinPath("c/par",
                relativeFileURL(parseURL(normalizeURL("file://../leaf"))).Path)
         = "c/leaf"
    /\ Cardinality(ClonesFor("a/p")) <= 1
    /\ \A j \in ClonesFor("a/p") : netLog[j].key = KeyOf("c/par")
    /\ (Releases("c/par") # {} /\ pc = "done" /\ err = "") =>
          Cardinality({i \in 1..Len(output) :
                          RenderedDependency(output[i], "p", "par", "leaf")}) = 1
    /\ (enableChartInMemoryCache /\ KeyOf("c/par") \in DOMAIN chartCache) =>
          /\ Len(chartCache[KeyOf("c/par")].dependencies) = 2
          /\ chartCache[KeyOf("c/par")].dependencies[1]
               = LoadChart(GitTree(GitURL)["c/leaf"])
    /\ (ReturnedFor("c/par") /\ HelmURL \o "/" \notin netDown) => err = ""

\* C18: a dependency of a chart of a Git repository whose repository is
\* relative or has the scheme file is read from the checkout of the
\* parent, at the chart path of the parent joined with the relative path,
\* by the Git loader, without another clone, and is attached to the
\* parent: so for file://../leaf under c/par, which is c/leaf, and for
\* file://./sub under c/dot, which is c/dot/sub.
C18_LocalDependencyAtJoinedPath ==
    /\ ParentRelativeDependency
    /\ Cardinality(ClonesFor("a/d")) <= 1
    /\ \A j \in ClonesFor("a/d") : netLog[j].key = KeyOf("c/dot")
    /\ ReturnedFor("c/dot") =>
          /\ err = ""
          /\ \E i \in 1..Len(output) :
                RenderedDependency(output[i], "d", "dot", "sub")

\* The positions in the log of the operations of a kind made for a release
OpsOn(rel, ops) ==
    {j \in 1..Len(netLog) : netLog[j].rel = rel /\ netLog[j].op \in ops}

\* The error of a dependency that could not be loaded
NotLoaded(dependency, version, url, parent) ==
    "unable to load chart " \o dependency \o "/" \o version \o " from "
    \o url \o " (a dependency of " \o parent \o "): "

\* C19: a dependency whose repository is an absolute URL is loaded by the
\* loader of the scheme of that URL, whatever the loader and the checkout
\* of its parent: the OCI dependency of the chart c/opar of the Git
\* repository is pulled from the registry, the dependency of c/par in a
\* Helm repository is downloaded from it, and both are attached to the
\* parent; when the dependency cannot be loaded, or no loader handles its
\* URL, the call returns an error with the dependency's name, version and
\* URL and the parent's name.
C19_RemoteDependencyByScheme ==
    /\ \A j \in OpsOn("a/o", {"clone", "index", "chart", "tags", "pull"}) :
          IF netLog[j].op = "clone"
          THEN netLog[j].key = KeyOf("c/opar") /\ netLog[j].url = GitURL
          ELSE netLog[j].op \in {"tags", "pull"} /\ netLog[j].url = OciURL
    /\ \A j \in OpsOn("a/p", {"clone", "index", "chart", "tags", "pull"}) :
          IF netLog[j].op = "clone"
          THEN netLog[j].key = KeyOf("c/par") /\ netLog[j].url = GitURL
          ELSE netLog[j].op \in {"index", "chart"}
               /\ netLog[j].url = HelmURL \o "/"
    /\ ReturnedFor("c/opar") =>
          IF OciURL \in netDown
          THEN /\ Mentions(err, NotLoaded("oleaf", ">=0.1.0", OciURL, "opar"))
               /\ output = <<>>
          ELSE /\ err = ""
               /\ OpsOn("a/o", {"tags"}) # {}
               /\ Cardinality(OpsOn("a/o", {"pull"})) = 1
               /\ \E i \in 1..Len(output) :
                     output[i].src = "Source: opar/charts/oleaf/templates/sec.yaml"
    /\ ReturnedFor("c/par") =>
          IF HelmURL \o "/" \in netDown
          THEN /\ Mentions(err, NotLoaded("hleaf", ">=0.1.0", HelmURL \o "/", "par"))
               /\ output = <<>>
          ELSE /\ err = ""
               /\ Cardinality(OpsOn("a/p", {"chart"})) = 1
               /\ \E i \in 1..Len(output) :
                     RenderedDependency(output[i], "p", "par", "hleaf")
    /\ ReturnedFor("c/bad") =>
          /\ Mentions(err, "unable to get loader for chart gone/1.0.0 in "
                           \o "ftp://h/x/ (a dependency of bad): ")
          /\ output = <<>>

\* The release of c/opar has been expanded: its chart comes from one clone
\* and its dependency from one pull from the registry.
C19_Witness ==
    /\ ReturnedFor("c/opar")
    /\ netDown = {}
    /\ ~enableChartInMemoryCache
    /\ chartCacheDir = ""
    /\ err = ""
    /\ Cardinality(OpsOn("a/o", {"clone"})) = 1
    /\ Cardinality(OpsOn("a/o", {"pull"})) = 1
    /\ \E i \in 1..Len(output) :
          output[i].src = "Source: opar/charts/oleaf/templates/sec.yaml"

\* The cache directory of the Helm repository, its index file and the
\* directory of the chart hleaf at the version the releases resolve to
HelmRepoDir == CacheDir \o "/http:##h#x"

HelmIndexFile == HelmRepoDir \o "/repo-index.yaml"

HelmChartDir == HelmRepoDir \o "/hleaf-0.2.0"

\* The input has releases of the chart of the Helm repository only.
HelmReleasesOnly ==
    /\ Len(input) > Len(RegistryRepos)
    /\ \A i \in 1..Len(input) :
          GetKind(input[i]) = "HelmRelease" => input[i].spec.chart = "hleaf"

\* The first call, with the cache directory, has downloaded the index and
\* the chart of the Helm repository, and a later call is made or has
\* returned.
CachedByFirstCall ==
    /\ chartCacheDir = CacheDir
    /\ invocation > 1
    /\ \E j \in OpsOf(1, {"index"}) : netLog[j].path = HelmIndexFile
    /\ \E j \in OpsOf(1, {"chart"}) : netLog[j].path = HelmChartDir

\* C20: with a cache directory, once a call has downloaded the index and
\* a chart version of a Helm repository, a later call on the same input
\* makes no request at all and succeeds, also when the chart server has
\* been stopped in between, and the cache directory holds
\* <url-dir>/repo-index.yaml and <url-dir>/<chart>-<version> with the chart
\* as it was downloaded.
C20_SecondCallFromCacheDirectory ==
    (CachedByFirstCall /\ HelmReleasesOnly) =>
        /\ \A n \in 2..invocation :
              OpsOf(n, {"index", "chart", "clone", "tags", "pull"}) = {}
        /\ HelmIndexFile \in DOMAIN disk
        /\ disk[HelmIndexFile].kind = "file"
        /\ IsDir(disk, HelmChartDir)
        /\ disk[HelmChartDir]
             = [kind |-> "chart", def |-> HelmChart(HelmURL \o "/", "hleaf", "0.2.0")]
        /\ pc = "done" =>
              /\ err = ""
              /\ \A i \in 1..Len(input) :
                    GetKind(input[i]) = "HelmRelease" =>
                        \E k \in 1..Len(output) :
                            /\ output[k].src = "Source: hleaf/templates/cm.yaml"
                            /\ GetName(output[k])
                                 = "a-" \o GetName(input[i]) \o "-cm"

\* The second call has expanded the releases with the chart server
\* stopped, from the cache directory alone.
C20_Witness ==
    /\ CachedByFirstCall
    /\ HelmReleasesOnly
    /\ ~enableChartInMemoryCache
    /\ HelmURL \o "/" \in netDown
    /\ invocation = 2
    /\ pc = "done"
    /\ err = ""
    /\ OpsOf(2, {"index", "chart"}) = {}
    /\ Len(output) > Len(input)

\* One call is made with a cache directory and without in-memory cache on
\* two releases of different charts of the Git repository a/g, which is at
\* a reference that moves.
TwoChartsOneFloatingRef ==
    /\ chartCacheDir = CacheDir
    /\ ~enableChartInMemoryCache
    /\ Len(input) = 4
    /\ GetKind(input[1]) = "GitRepository"
    /\ input[1].spec.ref \in FloatingRefs
    /\ input[2].spec.ref \in FloatingRefs
    /\ input[3].spec.sourceRef.name = "g"
    /\ input[4].spec.sourceRef.name = "g"
    /\ input[3].spec.chart # input[4].spec.chart

-----------------------------------------------------------------------------
(* Git repository substitution *)

\* The substitution given to the call names the URL of the Git repository
\* of the input and a branch that matches the repository's reference.
SubstitutionApplies ==
    /\ gitRepoSubst # NoSubst
    /\ gitRepoSubst.URL = input[1].spec.url
    /\ \/ /\ gitRepoSubst.Branch = ""
          /\ input[1].spec.ref \in {NoRef, [NoRef EXCEPT !.Branch = "main"],
                                    [NoRef EXCEPT !.Branch = "master"]}
       \/ /\ gitRepoSubst.Branch # ""
          /\ input[1].spec.ref.Branch = gitRepoSubst.Branch

\* The nodes produced in the k-th round are those of the chart in the
\* working copy, one for each release.
FromWorkingCopy(k) ==
    /\ Len(produced[k]) = Len(input) - 1
    /\ \A i \in 1..Len(produced[k]) :
        produced[k][i].src = "Source: leaf/templates/fixed.yaml"

\* The nodes produced in the k-th round are those of the chart in the Git
\* repository, one for each release.
FromRepository(k) ==
    /\ Len(produced[k]) = Len(input) - 1
    /\ \A i \in 1..Len(produced[k]) :
        produced[k][i].src = "Source: leaf/templates/cm.yaml"

-----------------------------------------------------------------------------
(* Namespace defaulting *)

\* The templates of the charts that declare no namespace
UndeclaredTemplates == {"fixed", "twin", "repo"}

\* The node was rendered from a template that declares no namespace.
Undeclared(n) ==
    \E t \in UndeclaredTemplates : HasSuffix(n.src, "/templates/" \o t \o ".yaml")

\* The node is one of those the release renders: it carries the release's
\* values (a generated repository carries none).
RenderedFor(n, release) ==
    CASE GetKind(n) = "GitRepository" -> release.spec.chart = "c/nest"
      [] GetKind(n) = "HelmRelease" -> n.spec.values = release.spec.values
      [] OTHER -> n.spec.data = release.spec.values

\* The i-th node produced in round r is the rendered node of a release
\* expanded in that round with the namespace defaulted: the release's
\* namespace as the last key under metadata when the template declares
\* none, the declared namespace (the release's target) where it was.
DefaultedOnly(r, i) ==
    \E p \in 1..Len(bound[r]) :
        /\ RenderedFor(produced[r][i], bound[r][p].release)
        /\ IF Undeclared(produced[r][i])
           THEN /\ produced[r][i].namespace = GetNamespace(bound[r][p].release)
                /\ produced[r][i].keys = <<"name", "namespace">>
           ELSE /\ produced[r][i].namespace = targetNamespaceOf(bound[r][p].release)
                /\ produced[r][i].keys = <<"namespace", "name">>

\* C23: namespace defaulting is applied only to the nodes newly produced
\* for a release: a produced node that declares no namespace receives one,
\* appended as the last key under metadata, a produced node that declares a
\* namespace keeps it, and the nodes of the input and of the earlier rounds
\* stay as they were.
C23_NamespaceDefaultedOnNewNodesOnly ==
    pc # "idle" =>
        /\ nodes = input \o Flatten(produced)
        /\ \A r \in 1..Len(produced) : \A i \in 1..Len(produced[r]) :
              DefaultedOnly(r, i)

\* A call has returned the nodes of a release with a target namespace whose
\* chart declares no namespace and of one whose chart declares it.
C23_Witness ==
    /\ pc = "done" /\ err = ""
    /\ \E i \in 1..Len(output) :
          /\ Undeclared(output[i]) /\ GetKind(output[i]) = "ConfigMap"
          /\ output[i].namespace = "a" /\ output[i].spec.data = "v3"
          /\ output[i].keys = <<"name", "namespace">>
    /\ \E i \in 1..Len(output) :
          /\ output[i].namespace = "t" /\ output[i].keys = <<"namespace", "name">>

-----------------------------------------------------------------------------
(* Corrupt chart directories in the cache directory *)

OciChartDir ==
    getChartPath(getCachePathForRepo(CacheDir, OciURL, FALSE), "oleaf", "0.2.0")

\* The positions in the input of the releases of a chart
ReleasesOf(chartName) ==
    {i \in 1..Len(input) : isHelmRelease(input[i]) /\ input[i].spec.chart = chartName}

\* A round is about to expand releases, all of the one chart (every one
\* of them resolves to the chart's highest version).
AboutToExpand(chartName) ==
    /\ pc = "filter"
    /\ round < maxExpansions
    /\ ReleasesOf(chartName) # {}
    /\ \A i \in 1..Len(input) : isHelmRelease(input[i]) => i \in ReleasesOf(chartName)

\* The directory is in the cache directory and its content is no chart.
StaleOnDisk(chartDir) == chartDir \in DOMAIN disk /\ disk[chartDir] = Corrupt

\* C24: in the OCI backend, when the cache directory of the resolved chart
\* version exists but the chart in it does not load, the call returns the
\* load error (it does not break off on a nil chart) and the cache
\* directory is left where it is.
C24_CorruptOciEntrySurfaced ==
    [][(AboutToExpand("oleaf") /\ StaleOnDisk(OciChartDir)) =>
          /\ err' # ""
          /\ ~Mentions(err', "panic")
          /\ OciChartDir \in DOMAIN disk']_vars

\* The first call on a release of the OCI chart has found the chart's
\* directory corrupt: it has removed the directory and has broken off on
\* the nil chart.
C24_Witness ==
    /\ invocation = 1 /\ pc = "return"
    /\ ReleasesOf("oleaf") # {}
    /\ Mentions(err, NilChartPanic)
    /\ OciChartDir \notin DOMAIN disk
    /\ netLog # <<>> /\ \A j \in 1..Len(netLog) : netLog[j].op = "tags"

\* The chart of the Helm repository at its highest version, as downloaded
HelmChartSaved == [kind |-> "chart", def |-> HelmChart(HelmURL \o "/", "hleaf", "0.2.0")]

\* C25: in the Helm-HTTP backend, when the cache directory of the resolved
\* chart version exists but the chart in it does not load, or when there is
\* no such directory, the chart is downloaded (once in the round, into the
\* directory, a stale directory giving way to the downloaded files) and the
\* resolution succeeds with the downloaded chart.
C25_StaleHelmEntryReplaced ==
    [][(/\ AboutToExpand("hleaf")
        /\ HelmURL \o "/" \notin netDown
        /\ (StaleOnDisk(HelmChartDir) \/ HelmChartDir \notin DOMAIN disk)) =>
          /\ err' = ""
          /\ disk'[HelmChartDir] = HelmChartSaved
          /\ Len(netLog') > Len(netLog)
          /\ Cardinality({j \in (Len(netLog) + 1)..Len(netLog') :
                            netLog'[j].op = "chart"
                            /\ netLog'[j].path = HelmChartDir}) = 1
          /\ Len(produced') = Len(produced) + 1
          /\ Len(produced'[Len(produced')]) = Cardinality(ReleasesOf("hleaf"))
          /\ \A i \in 1..Len(produced'[Len(produced')]) :
                produced'[Len(produced')][i].src = "Source: hleaf/templates/cm.yaml"]_vars

\* A call has found the chart's directory corrupt and has returned the
\* nodes of the downloaded chart, the directory holding the chart again.
C25_Witness ==
    /\ invocation = 1 /\ pc = "done" /\ err = ""
    /\ ReleasesOf("hleaf") # {}
    /\ OciChartDir \in DOMAIN disk => disk[OciChartDir] = Corrupt
    /\ disk[HelmChartDir] = HelmChartSaved
    /\ \E j \in 1..Len(netLog) : netLog[j].op = "chart"
    /\ output # <<>>

-----------------------------------------------------------------------------
(* The in-memory cache and the operations that precede its lookup *)

\* The positions in the round of the releases whose chart identity an
\* earlier release of the round has resolved (the releases of the caching
\* runs that name the same chart have the same identity): their load finds
\* the chart in the in-memory cache.
MemoryCacheHits ==
    IF enableChartInMemoryCache /\ Len(bound) = 1
    THEN {i \in 2..Len(bound[1]) :
            \E j \in 1..(i - 1) :
                bound[1][j].release.spec.chart = bound[1][i].release.spec.chart}
    ELSE {}

\* The operations logged in this call for the i-th release of the round
OpsOfHit(i, ops) ==
    {j \in OpsOf(invocation, ops) : netLog[j].rel = ReleaseId(bound[1][i].release)}

AllOps == {"clone", "index", "chart", "tags", "pull"}

\* C26 as stated: in every backend the in-memory cache is consulted before
\* any network or disk operation: the load of a chart that is found in the
\* in-memory cache has downloaded no index, listed no tags, cloned nothing
\* and fetched no chart.
C26_CacheBeforeAnyOperation ==
    \A i \in MemoryCacheHits : OpsOfHit(i, AllOps) = {}

\* C26, amended: the load of a chart that is found in the in-memory cache
\* has fetched nothing (no clone, no chart download, no pull); in the Git
\* backend it has made no operation at all, in the Helm backend it has at
\* most downloaded the index, and in the OCI backend it has at most listed
\* the tags, both of which resolve the version the cache key is made of.
C26_CacheBeforeFetch ==
    \A i \in MemoryCacheHits :
        /\ OpsOfHit(i, FetchOps) = {}
        /\ CASE getRepoFactory(bound[1][i].repo) = "git" ->
                    OpsOfHit(i, AllOps) = {}
             [] getRepoFactory(bound[1][i].repo) = "helm" ->
                    Cardinality(OpsOfHit(i, AllOps)) <= 1
                    /\ OpsOfHit(i, AllOps) = OpsOfHit(i, {"index"})
             [] getRepoFactory(bound[1][i].repo) = "oci" ->
                    Cardinality(OpsOfHit(i, AllOps)) <= 1
                    /\ OpsOfHit(i, AllOps) = OpsOfHit(i, {"tags"})

\* A call without cache directory has expanded two releases of the chart
\* of the Helm repository: the second found the chart in the in-memory
\* cache after it had downloaded the index.
C26_Witness ==
    /\ pc = "done" /\ err = "" /\ chartCacheDir = ""
    /\ MemoryCacheHits = {2}
    /\ getRepoFactory(bound[1][2].repo) = "helm"
    /\ Cardinality(OpsOfHit(2, {"index"})) = 1
    /\ OpsOfHit(2, FetchOps) = {}
    /\ Len(output) = Len(input) + 2

-----------------------------------------------------------------------------
(* Charts shared through the in-memory cache *)

\* The charts of the Git repository as the loader returns them: the chart
\* c/leaf, and the chart c/cond with its dependency attached
LeafLoaded == LoadChart(GitTree(GitURL)["c/leaf"])

CondLoaded ==
    [LoadChart(GitTree(GitURL)["c/cond"]) EXCEPT !.dependencies = <<LeafLoaded>>]

\* The release has values that leave the dependency of c/cond enabled.
KeepsDependency(release) ==
    isHelmRelease(release) /\ release.spec.chart = "c/cond"
    /\ release.spec.values # ValuesOff

\* C27: a chart is never modified after it has been stored in the
\* in-memory cache: every chart the cache holds is the chart as it was
\* loaded, whatever the values of the releases it has been handed to, so
\* every release whose values leave the dependency enabled gets the nodes
\* of the dependency.
C27_CachedChartNeverModified ==
    /\ \A k \in DOMAIN chartCache : chartCache[k] \in {LeafLoaded, CondLoaded}
    /\ (pc = "done" /\ err = "") =>
          \A i \in 1..Len(input) :
              KeepsDependency(input[i]) =>
                  \E j \in 1..Len(output) :
                      /\ output[j].src = "Source: cond/charts/leaf/templates/cm.yaml"
                      /\ output[j].spec.data = input[i].spec.values

\* A call with the in-memory cache has expanded a release that disables
\* the dependency and then a release of the same chart that does not: the
\* cache holds the chart without the dependency, and the output has no node
\* of the dependency.
C27_Witness ==
    /\ enableChartInMemoryCache
    /\ pc = "done" /\ err = ""
    /\ Len(input) = 3
    /\ input[2].spec.values = ValuesOff /\ KeepsDependency(input[3])
    /\ \E k \in DOMAIN chartCache :
          chartCache[k].name = "cond" /\ chartCache[k].dependencies = <<>>
    /\ \A j \in 1..Len(output) :
          output[j].src # "Source: cond/charts/leaf/templates/cm.yaml"

-----------------------------------------------------------------------------
(* The nodes a round takes its releases from *)

\* The release resources among the nodes, in their order
HelmReleasesIn(ns) ==
    SelectSeq(ns, LAMBDA n : n.kind = "HelmRelease"
                             /\ HasPrefix(n.apiVersion, HelmReleaseGroup \o "/"))

\* The releases round k has expanded or was about to expand
ReleasesOfRound(k) == [m \in 1..Len(bound[k]) |-> bound[k][m].release]

\* The nodes round k was handed to render: the input in the first round,
\* the result of the round before in the later ones
NodesToRender(k) == IF k = 1 THEN input ELSE produced[k - 1]

\* C28 as stated: in every round after the first, the releases are those
\* of the full accumulated node set (the input and all nodes produced so
\* far).
C28_ReleasesFromAllNodes ==
    \A k \in 2..Len(bound) : ReleasesOfRound(k) = HelmReleasesIn(NodesBefore(k))

\* C28, amended: the releases of a round are those among the nodes the
\* round before has produced (those of the input in the first round), in
\* their order; it is their repositories that are looked up in the full
\* accumulated node set.
C28_ReleasesFromPreviousRound ==
    \A k \in 1..Len(bound) :
        /\ ReleasesOfRound(k) = HelmReleasesIn(NodesToRender(k))
        /\ \A m \in 1..Len(bound[k]) :
              bound[k][m].repo # NoNode =>
                  \E i \in 1..Len(NodesBefore(k)) :
                      NodesBefore(k)[i] = bound[k][m].repo

\* A second round has expanded a release that the first round produced,
\* with a repository of the input, and no release of the input again.
C28_Witness ==
    /\ Len(bound) >= 2 /\ Len(produced) >= 2
    /\ Len(bound[2]) = 1
    /\ HelmReleasesIn(input) # <<>>
    /\ \A i \in 1..Len(input) : input[i] # bound[2][1].release
    /\ \E i \in 1..Len(input) : input[i] = bound[2][1].repo

-----------------------------------------------------------------------------
(* Cache keys and checkout directories of Git references *)

\* The two repositories of the input have references that differ in a
\* slot, neither of them the empty reference (which stands for the branch
\* master).
DifferentRefs ==
    /\ input[1].spec.ref # input[2].spec.ref
    /\ input[1].spec.ref # NoRef /\ input[2].spec.ref # NoRef

RefKey(i) ==
    gitChartKey(GitURL, "c/leaf", normalizeGitReference(input[i].spec.ref))

RefDir(i) ==
    gitRepoPath(CacheDir, GitURL, normalizeGitReference(input[i].spec.ref))

\* C29: for the same repository URL and chart name, two Git references
\* that differ in any of the five slots have different memory-cache keys
\* and different checkout directories, also when slot values contain '#':
\* the two releases are resolved under two keys, and when both have been
\* expanded each reference has been cloned, into a directory of its own.
C29_RefsNeverCollide ==
    DifferentRefs =>
        /\ RefKey(1) # RefKey(2)
        /\ RefDir(1) # RefDir(2)
        /\ (pc = "return" /\ err = "") =>
              /\ Cardinality(Clones) = 2
              /\ \A i, j \in Clones :
                    i # j => /\ netLog[i].key # netLog[j].key
                             /\ netLog[i].path # netLog[j].path

\* A call with the in-memory cache on releases at the references
\* {branch: a#} and {branch: a, tag: #} has expanded both with one clone.
C29_Witness ==
    /\ pc = "return" /\ err = ""
    /\ enableChartInMemoryCache
    /\ input[1].spec.ref = [NoRef EXCEPT !.Branch = "a#"]
    /\ input[2].spec.ref = [NoRef EXCEPT !.Branch = "a", !.Tag = "#"]
    /\ Cardinality(Clones) = 1
    /\ Len(produced) = 1 /\ Len(produced[1]) = 2

-----------------------------------------------------------------------------
(* Backend selection *)

\* The operations each backend makes (the OCI backend logs in before it
\* lists the tags)
BackendOps(backend) ==
    CASE backend = "git"  -> {"clone"}
      [] backend = "helm" -> {"index", "chart"}
      [] backend = "oci"  -> {"awslogin", "login", "tags", "pull"}

\* The backend that the kind and spec.type of the repository select, ""
\* for none
BackendOfKind(repo) ==
    CASE repo.kind = "GitRepository" -> "git"
      [] repo.kind = "OCIRepository" -> "oci"
      [] repo.kind = "HelmRepository" /\ repo.spec.type = "oci" -> "oci"
      [] repo.kind = "HelmRepository" /\ IsString(repo.spec.type) -> "helm"
      [] OTHER -> ""

\* The release of the input has been bound to the repository and its
\* expansion is over.
Expanded ==
    /\ pc \in {"return", "done"}
    /\ Len(bound) = 1 /\ Len(bound[1]) = 1
    /\ bound[1][1].repo = input[1]

\* C30: the backend is selected by the kind of the repository resource:
\* GitRepository the Git backend, OCIRepository the OCI backend,
\* HelmRepository the OCI backend when spec.type is "oci" and the Helm-HTTP
\* backend when it is absent or any other string; for any other kind, and
\* for a spec.type that is not a string, the call fails with an error that
\* names the resource and no loader makes any operation.
C30_BackendByKind ==
    Expanded =>
        IF BackendOfKind(input[1]) # ""
        THEN /\ netLog # <<>>
             /\ \A j \in 1..Len(netLog) :
                   netLog[j].op \in BackendOps(BackendOfKind(input[1]))
             /\ ~Mentions(err, "unknown kind") /\ ~Mentions(err, "invalid value")
        ELSE /\ netLog = <<>>
             /\ disk = EmptyDisk
             /\ output = <<>>
             /\ IF input[1].kind = "HelmRepository"
                THEN Mentions(err, "invalid value for spec.type for HelmRepository a/r")
                ELSE Mentions(err, "unknown kind Bucket for repository a/r")

\* A call on a Helm repository whose spec.type is a number has failed
\* without an operation.
C30_Witness ==
    /\ Expanded /\ pc = "done"
    /\ input[1].kind = "HelmRepository" /\ input[1].spec.type = "!!int 1"
    /\ err # "" /\ netLog = <<>>

-----------------------------------------------------------------------------
(* Backend selection from a URL *)

\* The backend that the scheme and the user name of a URL select, "" for
\* none
BackendOfURL(scheme, username) ==
    CASE scheme = "oci" -> "oci"
      [] scheme = "ssh" -> "git"
      [] scheme \in {"http", "https"} -> IF username = "git" THEN "git" ELSE "helm"
      [] OTHER -> ""

\* URLs with their scheme and user name
BareURLs ==
    {[url |-> c.url, scheme |-> sch, user |-> usr] :
        c \in SchemeCharts, sch \in {"oci", "ssh", "http", "https", "ftp", "git", "sftp"},
        usr \in {"", "git", "bob", "gitx"}}
    \cup {[url |-> "h/x", scheme |-> "", user |-> ""],
          [url |-> "../leaf", scheme |-> "", user |-> ""],
          [url |-> "file://../leaf", scheme |-> "file", user |-> ""]}

\* The scheme and user name written in a URL of BareURLs
Written31(u) ==
    /\ IF u.scheme = "" THEN Index(u.url, "://") = 0
       ELSE HasPrefix(u.url, u.scheme \o "://")
    /\ IF u.user = "" THEN Index(u.url, "@") = 0
       ELSE \/ Index(u.url, "//" \o u.user \o "@") # 0
            \/ Index(u.url, "//" \o u.user \o ":") # 0

\* The release of the input and the dependency of its chart
SchemeRun == SchemeChart(input[2].spec.chart)

\* The operations made at the URL of the dependency
DependencyOps ==
    {netLog[j].op : j \in {k \in 1..Len(netLog) : netLog[k].url # GitURL}}

\* C31: the backend for a bare URL is selected by the scheme of the URL:
\* oci the OCI backend, ssh the Git backend, http and https the Git backend
\* when the user name of the URL is git and the Helm-HTTP backend
\* otherwise; every other scheme, the empty one included, is an error.
\* The dependency of a chart is handed to the backend its URL selects (which
\* makes its operations at that URL, or, for Git, fails on the credentials
\* of the URL), and a URL that selects none ends the call with an error
\* that names it.
C31_BackendByScheme ==
    /\ \A u \in BareURLs :
          Written31(u) =>
              getRepoFactoryByURL(u.url) = BackendOfURL(u.scheme, u.user)
    /\ (pc \in {"return", "done"} /\ Len(input) = 2
        /\ input[2].spec.chart \in {c.dir : c \in SchemeCharts}) =>
          LET u == parseURL(SchemeRun.url)
              backend == BackendOfURL(u.Scheme, Username(u.User)) IN
          IF backend = ""
          THEN /\ Mentions(err, "unknown type for repository URL "
                                \o normalizeURL(SchemeRun.url))
               /\ DependencyOps = {}
               /\ output = <<>>
          ELSE /\ ~Mentions(err, "unknown type for repository URL")
               /\ DependencyOps \subseteq BackendOps(backend)
               /\ \/ DependencyOps # {}
                  \/ /\ backend = "git"
                     /\ Mentions(err, "unable to initialize Git auth options")

\* The dependency at an https URL with the user name git and a password has
\* been handed to the Git backend.
C31_Witness ==
    /\ pc = "done" /\ Len(input) = 2
    /\ input[2].spec.chart = "u/httpsp"
    /\ DependencyOps = {"clone"}

-----------------------------------------------------------------------------
(* The registry client *)

\* The repository resource of the registry of the call (NoNode when the
\* registry is that of a dependency's URL) and the URL of the registry
ClientRepo == IF input[1].kind = "GitRepository" THEN NoNode ELSE input[1]

ClientURL ==
    normalizeURL(IF ClientRepo # NoNode THEN ClientRepo.spec.url
                 ELSE SchemeChart(input[2].spec.chart).url)

\* The positions in the log of the operations at the registry
RegistryOps(ops) ==
    {j \in 1..Len(netLog) : netLog[j].op \in ops /\ netLog[j].url = ClientURL}

ClientRun ==
    /\ Len(input) = 2
    /\ input[2].spec.chart \in {"oleaf", "u/oci", "u/ecr"}

\* URLs of a registry with their schemes
BareRegistryURLs ==
    {[url |-> sch \o "://h/o", scheme |-> sch] :
        sch \in {"oci", "https", "http", "ftp", "ssh"}}
    \cup {[url |-> "h/o", scheme |-> ""]}

ExplicitCreds == FindForRepo(credentials, parseURL(ClientURL)).creds

HasExplicit == ExplicitCreds.username # "" \/ ExplicitCreds.password # ""

\* The registry is one of ECR by its host name, or the repository resource
\* declares the provider aws
CloudRegistry ==
    \/ parseURL(ClientURL).Host = EcrHost
    \/ ClientRepo # NoNode /\ ClientRepo.spec.provider = "aws"

\* The loader of the registry has returned
ClientReturned == ClientRun /\ pc \in {"return", "done"}

\* C33: the user name and password of the resolved credentials are used
\* when one of them is present; only when both are absent the automatic
\* login of the cloud is attempted, and then exactly when the host of the
\* registry has the form of an ECR host or the repository resource declares
\* the provider aws; the client logs in to the registry exactly when a user
\* name or a password was obtained in one of the two ways, and before it
\* lists tags or pulls.
C33_AuthenticationPrecedence ==
    ClientReturned =>
        /\ HasExplicit =>
              /\ RegistryOps({"awslogin"}) = {}
              /\ Cardinality(RegistryOps({"login"})) = 1
              /\ \A j \in RegistryOps({"login"}) :
                    /\ netLog[j].username = ExplicitCreds.username
                    /\ netLog[j].password = ExplicitCreds.password
        /\ ~HasExplicit =>
              /\ (RegistryOps({"awslogin"}) # {}) = CloudRegistry
              /\ (RegistryOps({"login"}) # {})
                    = (CloudRegistry /\ AwsAccount \notin netDown)
              /\ \A j \in RegistryOps({"login"}) :
                    netLog[j].username = "AWS" /\ netLog[j].password = "token"
        /\ \A j \in RegistryOps({"login"}), k \in RegistryOps({"tags", "pull"}) : j < k
        /\ \A j \in RegistryOps({"awslogin"}), k \in RegistryOps({"login"}) : j < k
        /\ (~HasExplicit /\ CloudRegistry /\ AwsAccount \in netDown) =>
              /\ RegistryOps({"tags", "pull"}) = {}
              /\ Mentions(err, "unable to log in to AWS registry")

\* The registry of a repository resource that declares no provider is at a
\* host of ECR, the credentials have nothing for it, and the call is over.
C33_Witness ==
    /\ ClientReturned /\ pc = "done"
    /\ ClientRepo # NoNode /\ ClientRepo.spec.provider = ""
    /\ parseURL(ClientURL).Host = EcrHost
    /\ ~HasExplicit
    /\ RegistryOps({"tags"}) # {}

-----------------------------------------------------------------------------
(* Two calls at the same time *)

\* The reference of the repository of the input floats
FloatingRun == isEphemeralRef(normalizeGitReference(input[1].spec.ref))

\* The checkouts a call has cloned
ClonedBy(inv) ==
    {netLog[j].path : j \in {k \in 1..Len(netLog) :
                                netLog[k].op = "clone" /\ netLog[k].inv = inv}}

\* A call is between two rounds, has loaded a chart from its checkout and
\* has a release left to expand
FirstPending ==
    /\ pc = "filter" /\ round >= 1 /\ round < maxExpansions
    /\ Len(SelectReleases(newNodes, 1)) > 0

SecondPending ==
    /\ peer.pc = "filter" /\ peer.round >= 1 /\ peer.round < maxExpansions
    /\ Len(SelectReleases(peer.newNodes, 1)) > 0

\* Each call that has loaded a chart at the floating reference has made
\* the checkout itself.
OwnCheckouts ==
    FloatingRun =>
        /\ (round >= 1 /\ err = "") => ClonedBy(1) # {}
        /\ (peer.round >= 1 /\ peer.err = "") => ClonedBy(PeerInvocation) # {}

\* The return of a call removes no checkout while the other call is
\* between two rounds.
CleanupSparesOther ==
    \A p \in DOMAIN disk \ DOMAIN disk' :
        disk[p].kind = "git" =>
            /\ (pc = "return" /\ pc' = "done") => ~SecondPending
            /\ (peer.pc = "return" /\ peer'.pc = "done") => ~FirstPending

\* C34: when two calls run at the same time with the same cache directory,
\* a checkout at a floating reference that one call made is never taken
\* for its own by the other, and the removal of the ephemeral subtree at
\* the end of one call never deletes a checkout the other is still using.
C34_FloatingRefsIsolatedPerRun ==
    []OwnCheckouts /\ [][CleanupSparesOther]_vars

\* The second call has loaded the chart at the floating reference from the
\* checkout of the first, which is still running, without a clone.
C34_Witness ==
    /\ FloatingRun
    /\ peer.round >= 1 /\ peer.err = ""
    /\ ClonedBy(PeerInvocation) = {}
    /\ ClonedBy(1) # {}
    /\ pc = "filter"

-----------------------------------------------------------------------------
(* Each release is expanded once *)

\* The nodes of the call so far: the input and what the rounds produced
NodesSoFar == NodesBefore(Len(produced) + 1)

\* How often a node occurs in a sequence of nodes
Occurrences(n, ns) == Cardinality({i \in 1..Len(ns) : ns[i] = n})

\* How often the rounds have expanded a release (or were about to)
Expansions(r) ==
    Cardinality(UNION {{<<k, m>> : m \in {i \in 1..Len(bound[k]) :
                                              bound[k][i].release = r}} :
                          k \in 1..Len(bound)})

\* C35: over a whole call every release node is expanded at most once: a
\* release of the input in round 1 only, a release that round k produced
\* in round k+1 only, and no round expands a release again that an earlier
\* round has expanded.
C35_EachReleaseExpandedOnce ==
    \A k \in 1..Len(bound) : \A m \in 1..Len(bound[k]) :
        /\ Expansions(bound[k][m].release)
              <= Occurrences(bound[k][m].release, NodesSoFar)
        /\ Occurrences(bound[k][m].release, input) > 0 => k = 1
        /\ \A j \in 1..Len(produced) :
              Occurrences(bound[k][m].release, produced[j]) > 0 => k = j + 1
        /\ \A j \in 1..(k - 1) : \A i \in 1..Len(bound[j]) :
              bound[j][i].release # bound[k][m].release

\* Two rounds are over: the first has expanded the release of the input,
\* the second the release that the first produced, and each once.
C35_Witness ==
    /\ pc = "done" /\ err = ""
    /\ Len(bound) = 2
    /\ Len(bound[1]) >= 1 /\ Len(bound[2]) >= 1
    /\ Occurrences(bound[2][1].release, produced[1]) = 1
    /\ Expansions(bound[1][1].release) = 1
    /\ Expansions(bound[2][1].release) = 1

-----------------------------------------------------------------------------
(* A load returns a chart or an error *)

\* The entry of the cache directory at a path is a file
FileOnDisk(path) == path \in DOMAIN disk /\ disk[path].kind = "file"

\* C36: every load of a backend that returns no error returns a chart: no
\* call hands on or uses an absent chart, whatever is in the cache
\* directory at the path of the chart (a directory that does not load, a
\* file); a call that ends without an error has rendered nodes for each of
\* its releases.
C36_LoadReturnsChartOrError ==
    /\ ~Mentions(err, NilChartPanic)
    /\ (pc = "done" /\ err = "") =>
          \A k \in 1..Len(bound) : \A m \in 1..Len(bound[k]) :
              \E i \in 1..Len(produced[k]) :
                  RenderedFor(produced[k][i], bound[k][m].release)

\* A call on a release of the chart of the Helm repository is over, with a
\* file in the cache directory at the path of the chart's directory: it
\* ended on the use of the absent chart.
C36_Witness ==
    /\ pc = "done"
    /\ FileOnDisk(HelmChartDir)
    /\ \E m \in 1..Len(bound[1]) :
          bound[1][m].release.spec.chart = "hleaf"
    /\ Mentions(err, NilChartPanic)

-----------------------------------------------------------------------------
(* Relative dependencies of charts loaded without a parent context *)

\* The charts of the registries whose dependency has an empty or file scheme
RegistryParents == {"hrel", "orel"}

\* The call is over and expanded a release of such a chart, the
\* registries reachable.
RegistryParentExpanded ==
    /\ pc = "done"
    /\ netDown = {}
    /\ \E m \in 1..Len(bound[1]) :
          bound[1][m].release.spec.chart \in RegistryParents

\* C37: the resolution of a dependency with an empty or file scheme never
\* uses an absent parent context: for a parent chart loaded by the Helm-HTTP
\* or OCI backend, which pass none, the call returns an error that names
\* the dependency and does not crash.
C37_RelativeDependencyWithoutContextIsAnError ==
    /\ ~Mentions(err, NilContextPanic)
    /\ RegistryParentExpanded =>
          Mentions(err, "unable to load chart") /\ Mentions(err, "leaf/0.1.0")

\* The call on a release of the chart hrel of the Helm repository is over,
\* ended by the use of the absent parent context.
C37_Witness ==
    /\ pc = "done"
    /\ \E m \in 1..Len(bound[1]) : bound[1][m].release.spec.chart = "hrel"
    /\ Mentions(err, NilContextPanic)

-----------------------------------------------------------------------------
(* Termination of the resolution of dependencies *)

\* The call expands a release of a chart of the cycle.
CycleRun ==
    \E i \in 2..Len(input) : input[i].spec.chart \in {"c/cyca", "c/cycb"}

\* C38: the resolution of dependencies terminates for every finite set of
\* charts, charts whose relative dependencies form a cycle included, with
\* the in-memory cache enabled or disabled: no load nests without end.
C38_DependencyResolutionTerminates == ~Mentions(err, StackOverflow)

\* The call on a release of c/cyca, which depends on ../cycb, which depends
\* on ../cyca, is over with the in-memory cache enabled: the loads nested
\* until the stack was exhausted.
C38_Witness ==
    /\ pc = "done"
    /\ CycleRun
    /\ enableChartInMemoryCache
    /\ Mentions(err, StackOverflow)

-----------------------------------------------------------------------------
(* Transparency of the in-memory cache *)

\* The round of a call on the same input without the in-memory cache, from
\* an empty cache directory
UncachedStep(rev) ==
    filterStep([Env EXCEPT !.cacheOn = FALSE],
               [disk |-> EmptyDisk, cache |-> EmptyCache, log |-> <<>>],
               input, input, rev)

\* The call, of one round on an empty cache directory, is over with the
\* in-memory cache enabled.
CachedCallOver ==
    /\ pc = "done"
    /\ enableChartInMemoryCache
    /\ invocation = 1
    /\ maxExpansions = 1

\* C39: the in-memory cache is transparent: a call with the cache enabled
\* ends with the error or the output of the call on the same input with
\* the cache disabled; the nodes rendered for a release do not depend on
\* the releases of the same chart expanded before it.
C39_MemoryCacheTransparent ==
    CachedCallOver =>
        \E rev \in SUBSET (1..Len(SelectReleases(input, 1))) :
            /\ (err = "") = (UncachedStep(rev).err = "")
            /\ err = "" => output = UncachedStep(rev).nodes

\* A call with the in-memory cache enabled is over without an error: it
\* expanded a release of c/cond whose values disable the dependency, then
\* one whose values leave it enabled, and its output is not the output of
\* the call without the cache.
C39_Witness ==
    /\ CachedCallOver
    /\ err = ""
    /\ Len(input) = 3
    /\ input[2].spec.chart = "c/cond" /\ input[2].spec.values = ValuesOff
    /\ KeepsDependency(input[3])
    /\ output # UncachedStep({}).nodes

-----------------------------------------------------------------------------
(* Transparency of the disk cache *)

\* The charts of the registries with a dependency in another registry:
\* the key of the chart in the in-memory cache, its dependency and the
\* template of the dependency
DiskParents ==
    {[chart |-> "hdep", key |-> helmChartKey(HelmURL \o "/", "hdep", "0.1.0"),
      dependency |-> "oleaf", template |-> "sec"],
     [chart |-> "odep", key |-> helmChartKey(OciURL, "odep", "0.1.0"),
      dependency |-> "hleaf", template |-> "cm"]}

\* The node is the rendered template of the dependency for the release
DependencyNode(n, release, parent) ==
    /\ n.src = "Source: " \o parent.chart \o "/charts/" \o parent.dependency
               \o "/templates/" \o parent.template \o ".yaml"
    /\ n.spec.data = release.spec.values

\* The releases of the chart bound in the round of the call
BoundReleases(chartName) ==
    {bound[1][m].release : m \in {k \in 1..Len(bound[1]) :
                                     bound[1][k].release.spec.chart = chartName}}

\* The call is over without an error.
CallSucceeded == pc = "done" /\ err = "" /\ Len(bound) = 1

\* C40: the disk cache is transparent in every backend: a chart served
\* from the cache directory has the dependency charts of the resolution
\* that populated the entry, so every release of it is rendered with the
\* nodes of the dependency, and with the in-memory cache enabled it is
\* stored there as after a fresh fetch.
C40_DiskCacheTransparent ==
    CallSucceeded =>
        \A parent \in DiskParents : \A release \in BoundReleases(parent.chart) :
            /\ \E j \in 1..Len(output) : DependencyNode(output[j], release, parent)
            /\ enableChartInMemoryCache => parent.key \in DOMAIN chartCache

\* The second call with the cache directory of the first is over without
\* an error: it served the chart odep of the OCI registry from the cache
\* directory (nothing was pulled for it) and rendered a release of it.
C40_Witness ==
    /\ CallSucceeded
    /\ invocation = 2
    /\ chartCacheDir = CacheDir
    /\ BoundReleases("odep") # {}
    /\ ~\E k \in 1..Len(netLog) :
          /\ netLog[k].inv = 2
          /\ netLog[k].op = "pull"
          /\ netLog[k].key = helmChartKey(OciURL, "odep", "0.1.0")

====
